---- MODULE Spec2Model ----
(***************************************************************************)
(* A model of the conditional event search of waveform-mcp                 *)
(* (src/src/condition.rs): the tokenizer, the recursive-descent parser,    *)
(* the literal decoder, the two evaluators, the signal-name extractor and  *)
(* the scan loop of find_conditional_events.                               *)
(*                                                                         *)
(* A condition string is a sequence of characters (one-character strings); *)
(* a token is a sequence of characters too, as a Rust String is.           *)
(***************************************************************************)
EXTENDS Integers, Sequences, FiniteSets, TLC

\* ------------------------------------------------------------------ bounds

\* Longest time table of the enumerated waveforms.
MaxLen == 3
\* Largest non-negative limit passed to find_conditional_events.
MaxLimit == 2
\* Longest condition string, in words, of the parser's enumerated inputs.
MaxWords == 3

\* ------------------------------------------------------- characters, tokens

TokAndAnd == <<"&", "&">>
TokOrOr == <<"|", "|">>
TokEqEq == <<"=", "=">>
TokNotEq == <<"!", "=">>
TokNot == <<"!">>
TokLParen == <<"(">>
TokRParen == <<")">>
TokPast == <<"$", "p", "a", "s", "t">>

\* s[from..to] of a sequence, empty when from > to.
Slice(s, from, to) == [k \in 1..(to - from + 1) |-> s[from + k - 1]]

\* The Vec<String> with `current` pushed when it is not empty.
Flush(tokens, current) == IF current = <<>> THEN tokens ELSE Append(tokens, current)

RECURSIVE TokenizeFrom(_, _, _, _)
\* The while loop of tokenize_condition from 1-based position p, with the
\* tokens and the current token collected so far.
TokenizeFrom(chars, p, current, tokens) ==
  IF p > Len(chars)
  THEN [ok |-> TRUE, tokens |-> Flush(tokens, current), err |-> ""]
  ELSE
    LET c == chars[p]
        next == IF p + 1 <= Len(chars) THEN chars[p + 1] ELSE ""
    IN CASE c = "&" ->
              IF next = "&"
              THEN TokenizeFrom(chars, p + 2, <<>>, Append(Flush(tokens, current), TokAndAnd))
              ELSE TokenizeFrom(chars, p + 1, Append(current, c), tokens)
         [] c = "|" ->
              IF next = "|"
              THEN TokenizeFrom(chars, p + 2, <<>>, Append(Flush(tokens, current), TokOrOr))
              ELSE TokenizeFrom(chars, p + 1, Append(current, c), tokens)
         [] c = "=" ->
              IF next = "="
              THEN TokenizeFrom(chars, p + 2, <<>>, Append(Flush(tokens, current), TokEqEq))
              ELSE [ok |-> FALSE, tokens |-> <<>>, err |-> "Unexpected single '='"]
         [] c = "!" ->
              IF next = "="
              THEN TokenizeFrom(chars, p + 2, <<>>, Append(Flush(tokens, current), TokNotEq))
              ELSE TokenizeFrom(chars, p + 1, <<>>, Append(Flush(tokens, current), TokNot))
         [] c = "$" ->
              IF p + 4 <= Len(chars) /\ Slice(chars, p + 1, p + 4) = <<"p", "a", "s", "t">>
              THEN TokenizeFrom(chars, p + 5, <<>>, Append(Flush(tokens, current), TokPast))
              ELSE TokenizeFrom(chars, p + 1, Append(current, c), tokens)
         [] c \in {"(", ")"} ->
              TokenizeFrom(chars, p + 1, <<>>, Append(Flush(tokens, current), <<c>>))
         [] c \in {" ", "\t"} ->
              TokenizeFrom(chars, p + 1, <<>>, Flush(tokens, current))
         [] OTHER ->
              TokenizeFrom(chars, p + 1, Append(current, c), tokens)

tokenize_condition(condition) == TokenizeFrom(condition, 1, <<>>, <<>>)

\* ---------------------------------------------------------- literal decoder

\* str::to_lowercase on the ASCII letters a literal can hold.
LowerChar(c) ==
  CASE c = "A" -> "a" [] c = "B" -> "b" [] c = "C" -> "c" [] c = "D" -> "d"
    [] c = "E" -> "e" [] c = "F" -> "f" [] c = "H" -> "h" [] c = "X" -> "x"
    [] c = "Z" -> "z" [] OTHER -> c

to_lowercase(s) == [k \in 1..Len(s) |-> LowerChar(s[k])]

\* char::to_digit(16), -1 when the character is no digit.
DigitVal(c) ==
  CASE c = "0" -> 0 [] c = "1" -> 1 [] c = "2" -> 2 [] c = "3" -> 3 [] c = "4" -> 4
    [] c = "5" -> 5 [] c = "6" -> 6 [] c = "7" -> 7 [] c = "8" -> 8 [] c = "9" -> 9
    [] c = "a" -> 10 [] c = "b" -> 11 [] c = "c" -> 12 [] c = "d" -> 13
    [] c = "e" -> 14 [] c = "f" -> 15 [] OTHER -> -1

\* The decimal digits of u64::MAX (and of usize::MAX on a 64-bit target),
\* 18446744073709551615: the model checker's integers are narrower than
\* 64 bits, so overflow is decided on the digits.
U64MaxDigits == <<1, 8, 4, 4, 6, 7, 4, 4, 0, 7, 3, 7, 0, 9, 5, 5, 1, 6, 1, 5>>

RECURSIVE StripLeadingZeros(_)
StripLeadingZeros(s) ==
  IF s # <<>> /\ s[1] = "0" THEN StripLeadingZeros(Tail(s)) ELSE s

RECURSIVE DigitsGreater(_, _, _)
\* Whether the digit string s, as long as `digits`, denotes a greater number.
DigitsGreater(s, digits, p) ==
  IF p > Len(s) THEN FALSE
  ELSE IF DigitVal(s[p]) # digits[p] THEN DigitVal(s[p]) > digits[p]
  ELSE DigitsGreater(s, digits, p + 1)

\* Whether a string of valid digits denotes a number above u64::MAX.
OverflowsU64(s, radix) ==
  LET sig == StripLeadingZeros(s)
  IN IF radix = 16 THEN Len(sig) > 16
     ELSE Len(sig) > Len(U64MaxDigits)
          \/ (Len(sig) = Len(U64MaxDigits) /\ DigitsGreater(sig, U64MaxDigits, 1))

RECURSIVE DigitsFrom(_, _, _, _)
\* The accumulation loop of from_str_radix over valid digits.
DigitsFrom(s, p, radix, acc) ==
  IF p > Len(s) THEN acc
  ELSE DigitsFrom(s, p + 1, radix, acc * radix + DigitVal(s[p]))

\* u64::from_str_radix / str::parse::<u64|usize>: an optional leading '+',
\* then at least one digit of the radix, the number at most u64::MAX;
\* -1 stands for Err.
from_str_radix(s, radix) ==
  LET body == IF s # <<>> /\ s[1] = "+" THEN Tail(s) ELSE s
  IN IF body = <<>> THEN -1
     ELSE IF \E k \in 1..Len(body) : DigitVal(body[k]) < 0 \/ DigitVal(body[k]) >= radix
     THEN -1
     ELSE IF OverflowsU64(body, radix) THEN -1
     ELSE DigitsFrom(body, 1, radix, 0)

\* The positions of the apostrophes of s.
QuotePositions(s) == {k \in 1..Len(s) : s[k] = "'"}

\* s with every '_' filtered out.
StripUnderscores(s) == SelectSeq(s, LAMBDA c : c # "_")

RECURSIVE BinaryBitsFrom(_, _, _)
\* The loop over the digits of a binary literal; ok is FALSE on x, z or any
\* other character than 0, 1 and _.
BinaryBitsFrom(s, p, bits) ==
  IF p > Len(s) THEN [ok |-> TRUE, bits |-> bits]
  ELSE CASE s[p] = "0" -> BinaryBitsFrom(s, p + 1, Append(bits, FALSE))
         [] s[p] = "1" -> BinaryBitsFrom(s, p + 1, Append(bits, TRUE))
         [] s[p] = "_" -> BinaryBitsFrom(s, p + 1, bits)
         [] OTHER -> [ok |-> FALSE, bits |-> <<>>]

NoLiteral == [kind |-> "None", bits |-> <<>>, value |-> 0]
LitErr(msg) == [ok |-> FALSE, lit |-> NoLiteral, err |-> msg]
LitOk(lit) == [ok |-> TRUE, lit |-> lit, err |-> ""]

parse_verilog_literal(s) ==
  LET lower == to_lowercase(s)
      quotes == QuotePositions(lower)
  IN IF Cardinality(quotes) # 1 THEN LitErr("Invalid literal format")
     ELSE
       LET q == CHOOSE k \in quotes : TRUE
           width == from_str_radix(Slice(lower, 1, q - 1), 10)
           value_part == Slice(lower, q + 1, Len(lower))
       IN IF width < 0 THEN LitErr("Invalid width")
          ELSE IF value_part = <<>> THEN LitErr("Missing base specifier")
          ELSE
            LET base == value_part[1]
                value_str == Tail(value_part)
            IN CASE base = "b" ->
                      LET r == BinaryBitsFrom(value_str, 1, <<>>)
                      IN IF r.ok
                         THEN LitOk([kind |-> "Binary", bits |-> r.bits, value |-> 0])
                         ELSE LitErr("Invalid binary digit")
                 [] base = "d" ->
                      LET v == from_str_radix(StripUnderscores(value_str), 10)
                      IN IF v < 0 THEN LitErr("Invalid decimal value")
                         ELSE LitOk([kind |-> "Decimal", bits |-> <<>>, value |-> v])
                 [] base = "h" ->
                      LET v == from_str_radix(StripUnderscores(value_str), 16)
                      IN IF v < 0 THEN LitErr("Invalid hex value")
                         ELSE LitOk([kind |-> "Hexadecimal", bits |-> <<>>, value |-> v])
                 [] OTHER -> LitErr("Unknown base specifier")

\* ------------------------------------------------------------------ the AST

NoAst == [op |-> "None"]
MkAnd(l, r) == [op |-> "And", l |-> l, r |-> r]
MkOr(l, r) == [op |-> "Or", l |-> l, r |-> r]
MkNot(e) == [op |-> "Not", e |-> e]
MkSignal(path) == [op |-> "Signal", path |-> path]
MkEq(l, r) == [op |-> "Eq", l |-> l, r |-> r]
MkNeq(l, r) == [op |-> "Neq", l |-> l, r |-> r]
MkLiteral(lit) == [op |-> "Literal", lit |-> lit]
MkPast(e) == [op |-> "Past", e |-> e]

\* ------------------------------------------------------------------ parser

\* Result<(Condition, &[String]), String>
POk(ast, rest) == [ok |-> TRUE, ast |-> ast, rest |-> rest, err |-> ""]
PErr(msg) == [ok |-> FALSE, ast |-> NoAst, rest |-> <<>>, err |-> msg]

RECURSIVE FindClose(_, _, _)
\* The search for the parenthesis closing $past( : the loop from 1-based
\* position cp at the given depth; pos is where it stopped.
FindClose(tokens, cp, depth) ==
  IF cp > Len(tokens) THEN [depth |-> depth, pos |-> cp]
  ELSE LET d == IF tokens[cp] = TokLParen THEN depth + 1
                ELSE IF tokens[cp] = TokRParen THEN depth - 1
                ELSE depth
       IN IF d = 0 THEN [depth |-> 0, pos |-> cp] ELSE FindClose(tokens, cp + 1, d)

RECURSIVE Parse(_, _, _)
\* The recursive-descent parser, one rule per function of the source:
\* parse_or, parse_and, parse_comparison, parse_not and parse_primary, and
\* the while loop of the first three ("or_loop", "and_loop", "cmp_loop"),
\* which carries the `left` operand built so far.
Parse(rule, tokens, left) ==
  CASE rule = "or" ->
         LET first == Parse("and", tokens, NoAst)
         IN IF first.ok THEN Parse("or_loop", first.rest, first.ast) ELSE first
    [] rule = "or_loop" ->
         IF tokens # <<>> /\ Head(tokens) = TokOrOr
         THEN LET right == Parse("and", Tail(tokens), NoAst)
              IN IF right.ok THEN Parse("or_loop", right.rest, MkOr(left, right.ast))
                 ELSE right
         ELSE POk(left, tokens)
    [] rule = "and" ->
         LET first == Parse("cmp", tokens, NoAst)
         IN IF first.ok THEN Parse("and_loop", first.rest, first.ast) ELSE first
    [] rule = "and_loop" ->
         IF tokens # <<>> /\ Head(tokens) = TokAndAnd
         THEN LET right == Parse("cmp", Tail(tokens), NoAst)
              IN IF right.ok THEN Parse("and_loop", right.rest, MkAnd(left, right.ast))
                 ELSE right
         ELSE POk(left, tokens)
    [] rule = "cmp" ->
         LET first == Parse("not", tokens, NoAst)
         IN IF first.ok THEN Parse("cmp_loop", first.rest, first.ast) ELSE first
    [] rule = "cmp_loop" ->
         IF tokens # <<>> /\ Head(tokens) \in {TokEqEq, TokNotEq}
         THEN LET right == Parse("not", Tail(tokens), NoAst)
              IN IF ~right.ok THEN right
                 ELSE IF Head(tokens) = TokEqEq
                 THEN Parse("cmp_loop", right.rest, MkEq(left, right.ast))
                 ELSE Parse("cmp_loop", right.rest, MkNeq(left, right.ast))
         ELSE POk(left, tokens)
    [] rule = "not" ->
         IF tokens # <<>> /\ Head(tokens) = TokNot
         THEN LET inner == Parse("not", Tail(tokens), NoAst)
              IN IF inner.ok THEN POk(MkNot(inner.ast), inner.rest) ELSE inner
         ELSE Parse("primary", tokens, NoAst)
    [] rule = "primary" ->
         IF tokens = <<>> THEN PErr("Unexpected end of tokens")
         ELSE IF Head(tokens) = TokLParen
         THEN LET inner == Parse("or", Tail(tokens), NoAst)
              IN IF ~inner.ok THEN inner
                 ELSE IF inner.rest = <<>> \/ Head(inner.rest) # TokRParen
                 THEN PErr("Expected closing parenthesis")
                 ELSE POk(inner.ast, Tail(inner.rest))
         ELSE IF Head(tokens) = TokPast
         THEN IF Len(tokens) < 3
              THEN PErr("Expected expression and closing parenthesis after $past")
              ELSE IF tokens[2] # TokLParen THEN PErr("Expected '(' after $past")
              ELSE LET close == FindClose(tokens, 3, 1)
                       inner == Parse("or", Slice(tokens, 3, close.pos - 1), NoAst)
                   IN IF close.depth # 0
                      THEN PErr("Unmatched parentheses in $past expression")
                      ELSE IF ~inner.ok THEN inner
                      ELSE IF inner.rest # <<>> THEN PErr("Unexpected tokens in $past()")
                      ELSE POk(MkPast(inner.ast),
                               Slice(tokens, close.pos + 1, Len(tokens)))
         ELSE LET literal == parse_verilog_literal(Head(tokens))
              IN IF literal.ok THEN POk(MkLiteral(literal.lit), Tail(tokens))
                 ELSE POk(MkSignal(Head(tokens)), Tail(tokens))

parse_or(tokens) == Parse("or", tokens, NoAst)

RECURSIVE DropSelects(_, _, _)
\* The characters from position p on without those from a `[` to its `]`.
DropSelects(chars, p, inside) ==
  IF p > Len(chars) THEN <<>>
  ELSE IF chars[p] = "[" THEN DropSelects(chars, p + 1, TRUE)
  ELSE IF chars[p] = "]" THEN DropSelects(chars, p + 1, FALSE)
  ELSE IF inside THEN DropSelects(chars, p + 1, inside)
  ELSE <<chars[p]>> \o DropSelects(chars, p + 1, inside)

\* A parser that silently drops every bit-select and takes the whole signal.
parse_condition_dropping_selects(condition) ==
  LET tokens == tokenize_condition(DropSelects(condition, 1, FALSE))
  IN IF ~tokens.ok THEN PErr(tokens.err)
     ELSE LET parsed == parse_or(tokens.tokens)
          IN IF ~parsed.ok THEN parsed
             ELSE IF parsed.rest # <<>> THEN PErr("Unexpected tokens at end of condition")
             ELSE parsed

\* Result<Condition, String>
parse_condition(condition) ==
  LET tokens == tokenize_condition(condition)
  IN IF ~tokens.ok THEN PErr(tokens.err)
     ELSE LET parsed == parse_or(tokens.tokens)
          IN IF ~parsed.ok THEN parsed
             ELSE IF parsed.rest # <<>> THEN PErr("Unexpected tokens at end of condition")
             ELSE parsed

\* ------------------------------------------------------ words of the inputs

\* The characters of a word of an enumerated condition string.
Chars(w) ==
  CASE w = "&&" -> TokAndAnd
    [] w = "||" -> TokOrOr
    [] w = "==" -> TokEqEq
    [] w = "!=" -> TokNotEq
    [] w = "$past" -> TokPast
    [] w = "1'b1" -> <<"1", "'", "b", "1">>
    [] w = "1'b0" -> <<"1", "'", "b", "0">>
    [] w = "valid" -> <<"v", "a", "l", "i", "d">>
    [] w = "ready" -> <<"r", "e", "a", "d", "y">>
    [] OTHER -> <<w>>

RECURSIVE Text(_)
\* The condition string spelled by a sequence of words.
Text(words) == IF words = <<>> THEN <<>> ELSE Chars(Head(words)) \o Text(Tail(words))

\* -------------------------------------------------------------- the waveform

\* A waveform is [timescale, time_table, vars]: vars maps the full name of
\* each variable of the hierarchy to [kind, bits, values], values[k] being
\* the number the variable holds at time index k - 1, or -1 while it has no
\* value yet.

RECURSIVE Pow2(_)
Pow2(n) == IF n = 0 THEN 1 ELSE 2 * Pow2(n - 1)

\* The bytes wellen keeps for a bit vector of that many bits, most
\* significant byte first.
BytesOf(v, bits) ==
  LET n == (bits + 7) \div 8
  IN [k \in 1..n |-> (v \div Pow2(8 * (n - k))) % 256]

\* wellen::SignalValue: Binary carries its bytes and the bit count, Event
\* carries nothing.  NoData is what Signal::get_offset answers (None) for a
\* time index before the signal's first value.
BinaryValue(data, bits) == [kind |-> "Binary", data |-> data, bits |-> bits]
EventValue == [kind |-> "Event", data |-> <<>>, bits |-> 0]
NoData == [kind |-> "None", data |-> <<>>, bits |-> 0]

\* Hierarchy::iter_vars compared with the path: the variable of that full
\* name, if any.
find_signal_by_path(wave, path) ==
  IF path \in DOMAIN wave.vars THEN [found |-> TRUE, signal_ref |-> path]
  ELSE [found |-> FALSE, signal_ref |-> <<>>]

\* Signal::get_offset followed by Signal::get_value_at: the value the signal
\* holds at the time index, the last one at or before it.
ValueAt(wave, signal_ref, time_idx) ==
  LET var == wave.vars[signal_ref]
      k == IF time_idx + 1 <= Len(var.values) THEN time_idx + 1 ELSE Len(var.values)
  IN IF k = 0 \/ var.values[k] < 0 THEN NoData
     ELSE IF var.kind = "Event" THEN EventValue
     ELSE BinaryValue(BytesOf(var.values[k], var.bits), var.bits)

\* ---------------------------------------------------------------- evaluator

RECURSIVE BitOr(_, _)
\* x | y on non-negative integers.
BitOr(x, y) ==
  IF x = 0 THEN y
  ELSE IF y = 0 THEN x
  ELSE (IF x % 2 = 1 \/ y % 2 = 1 THEN 1 ELSE 0) + 2 * BitOr(x \div 2, y \div 2)

\* Result<bool, String> and Result<i64, String>
EOk(v) == [ok |-> TRUE, val |-> v, err |-> ""]
EErr(msg) == [ok |-> FALSE, val |-> 0, err |-> msg]

RECURSIVE BytesOr(_, _, _)
\* value |= (b as i64) << i over the bytes from 1-based position p.
BytesOr(data, p, value) ==
  IF p > Len(data) THEN value
  ELSE BytesOr(data, p + 1,
               IF data[p] # 0 THEN BitOr(value, data[p] * Pow2(p - 1)) ELSE value)

signal_value_to_i64(signal_value) ==
  CASE signal_value.kind \in {"Binary", "FourValue", "NineValue"} ->
         EOk(BytesOr(signal_value.data, 1, 0))
    [] OTHER -> EErr("Event signal cannot be compared")

RECURSIVE BitsOr(_, _, _)
\* value |= 1i64 << i over the bits taken from the last one (i = 0) back.
BitsOr(bits, i, value) ==
  IF i >= Len(bits) THEN value
  ELSE BitsOr(bits, i + 1,
              IF bits[Len(bits) - i] THEN BitOr(value, Pow2(i)) ELSE value)

literal_to_i64(literal) ==
  IF literal.kind = "Binary" THEN EOk(BitsOr(literal.bits, 0, 0))
  ELSE EOk(literal.value)

is_signal_true(signal_value) ==
  CASE signal_value.kind \in {"Binary", "FourValue", "NineValue"} ->
         \E k \in 1..Len(signal_value.data) : signal_value.data[k] # 0
    [] OTHER -> FALSE

\* The lookup both evaluators make for a Signal leaf: the cache, the loaded
\* signal, the offset at the time index.
SignalLookup(path, wave, signal_cache, time_idx) ==
  IF path \notin signal_cache THEN EErr("Signal not found in cache")
  ELSE LET v == ValueAt(wave, path, time_idx)
       IN IF v.kind = "None" THEN EErr("No data for signal at time index")
          ELSE [ok |-> TRUE, val |-> v, err |-> ""]

RECURSIVE evaluate_condition_to_value(_, _, _, _)
evaluate_condition_to_value(condition, wave, signal_cache, time_idx) ==
  CASE condition.op = "Signal" ->
         LET v == SignalLookup(condition.path, wave, signal_cache, time_idx)
         IN IF v.ok THEN signal_value_to_i64(v.val) ELSE EErr(v.err)
    [] condition.op = "Literal" -> literal_to_i64(condition.lit)
    [] condition.op = "Past" ->
         IF time_idx = 0 THEN EErr("No previous value at time index 0")
         ELSE evaluate_condition_to_value(condition.e, wave, signal_cache, time_idx - 1)
    [] OTHER -> EErr("Expected signal or literal in comparison")

\* A conjunction that is true when either side is.
AndValueOfEither(left_val, right_val) == left_val \/ right_val

\* Ok(left_val && right_val) and Ok(left_val || right_val)
AndValue(left_val, right_val) == left_val /\ right_val
OrValue(left_val, right_val) == left_val \/ right_val

\* Past evaluating its operand at the time index it is evaluated at.
PreviousIndexNotDecremented(time_idx) == time_idx

\* The time index Past evaluates its operand at: time_idx - 1.
PreviousIndex(time_idx) == time_idx - 1

RECURSIVE evaluate_condition(_, _, _, _)
evaluate_condition(condition, wave, signal_cache, time_idx) ==
  CASE condition.op \in {"And", "Or"} ->
         LET left_val == evaluate_condition(condition.l, wave, signal_cache, time_idx)
             right_val == evaluate_condition(condition.r, wave, signal_cache, time_idx)
         IN IF ~left_val.ok THEN left_val
            ELSE IF ~right_val.ok THEN right_val
            ELSE IF condition.op = "And" THEN EOk(AndValue(left_val.val, right_val.val))
            ELSE EOk(OrValue(left_val.val, right_val.val))
    [] condition.op = "Not" ->
         LET val == evaluate_condition(condition.e, wave, signal_cache, time_idx)
         IN IF val.ok THEN EOk(~val.val) ELSE val
    [] condition.op = "Signal" ->
         LET v == SignalLookup(condition.path, wave, signal_cache, time_idx)
         IN IF v.ok THEN EOk(is_signal_true(v.val)) ELSE EErr(v.err)
    [] condition.op \in {"Eq", "Neq"} ->
         LET left_val == evaluate_condition_to_value(condition.l, wave, signal_cache, time_idx)
             right_val == evaluate_condition_to_value(condition.r, wave, signal_cache, time_idx)
         IN IF ~left_val.ok THEN left_val
            ELSE IF ~right_val.ok THEN right_val
            ELSE IF condition.op = "Eq" THEN EOk(left_val.val = right_val.val)
            ELSE EOk(left_val.val # right_val.val)
    [] condition.op = "Literal" -> EErr("Literals must be used in comparisons")
    [] condition.op = "Past" ->
         IF time_idx = 0 THEN EOk(FALSE)
         ELSE evaluate_condition(condition.e, wave, signal_cache, PreviousIndex(time_idx))

RECURSIVE LookupIndices(_, _, _, _, _)
\* The time indices at which the evaluation of `condition` at time_idx
\* fetches the value of a signal: get_offset and get_value_at in the Signal
\* arm of evaluate_condition, or of evaluate_condition_to_value when
\* to_value.  The `?` after a failed left operand skips the right one.
LookupIndices(condition, wave, signal_cache, time_idx, to_value) ==
  CASE condition.op = "Signal" ->
         IF condition.path \in signal_cache THEN {time_idx} ELSE {}
    [] condition.op = "Past" ->
         IF time_idx = 0 THEN {}
         ELSE LookupIndices(condition.e, wave, signal_cache, PreviousIndex(time_idx), to_value)
    [] condition.op \in {"And", "Or"} /\ ~to_value ->
         LookupIndices(condition.l, wave, signal_cache, time_idx, FALSE)
         \cup (IF evaluate_condition(condition.l, wave, signal_cache, time_idx).ok
               THEN LookupIndices(condition.r, wave, signal_cache, time_idx, FALSE)
               ELSE {})
    [] condition.op \in {"Eq", "Neq"} /\ ~to_value ->
         LookupIndices(condition.l, wave, signal_cache, time_idx, TRUE)
         \cup (IF evaluate_condition_to_value(condition.l, wave, signal_cache, time_idx).ok
               THEN LookupIndices(condition.r, wave, signal_cache, time_idx, TRUE)
               ELSE {})
    [] condition.op = "Not" /\ ~to_value ->
         LookupIndices(condition.e, wave, signal_cache, time_idx, FALSE)
    [] OTHER -> {}

\* ----------------------------------------------------- signal-name extractor

RECURSIVE ExtractWithoutContains(_, _)
\* A traversal that pushes the path of every Signal leaf, seen before or not.
ExtractWithoutContains(condition, names) ==
  CASE condition.op \in {"And", "Or", "Eq", "Neq"} ->
         ExtractWithoutContains(condition.r, ExtractWithoutContains(condition.l, names))
    [] condition.op \in {"Not", "Past"} -> ExtractWithoutContains(condition.e, names)
    [] condition.op = "Signal" -> Append(names, condition.path)
    [] OTHER -> names

RECURSIVE extract_signal_names_recursive(_, _)
\* The names vector after the traversal of `condition`.
extract_signal_names_recursive(condition, names) ==
  CASE condition.op \in {"And", "Or", "Eq", "Neq"} ->
         extract_signal_names_recursive(condition.r,
           extract_signal_names_recursive(condition.l, names))
    [] condition.op \in {"Not", "Past"} ->
         extract_signal_names_recursive(condition.e, names)
    [] condition.op = "Signal" ->
         IF \E k \in 1..Len(names) : names[k] = condition.path THEN names
         ELSE Append(names, condition.path)
    [] OTHER -> names

extract_signal_names(condition) == extract_signal_names_recursive(condition, <<>>)

\* ---------------------------------------------------------------- formatting

\* One digit of format!("{:x}").
HexDigit(n) ==
  <<"0", "1", "2", "3", "4", "5", "6", "7", "8", "9", "a", "b", "c", "d", "e", "f">>[n + 1]

\* format!("{:02x}", b) of one byte.
HexByte(b) == HexDigit(b \div 16) \o HexDigit(b % 16)

RECURSIVE HexBytes(_)
HexBytes(data) == IF data = <<>> THEN "" ELSE HexByte(Head(data)) \o HexBytes(Tail(data))

RECURSIVE DebugBytesFrom(_, _)
\* The elements of format!("{:?}", data) from position p, ", " between them.
DebugBytesFrom(data, p) ==
  IF p > Len(data) THEN ""
  ELSE (IF p > 1 THEN ", " ELSE "") \o ToString(data[p]) \o DebugBytesFrom(data, p + 1)

RECURSIVE BinString(_, _, _)
\* The bits bit_idx = bits-1 down to 0 of the byte, from the k-th one on.
BinString(byte, bits, k) ==
  IF k > bits THEN ""
  ELSE (IF (byte \div Pow2(bits - k)) % 2 = 1 THEN "1" ELSE "0") \o BinString(byte, bits, k + 1)

format_time(time_value, timescale) ==
  IF timescale.some
  THEN ToString(time_value * timescale.factor) \o timescale.unit
  ELSE ToString(time_value) \o " (unknown timescale)"

format_binary_verilog(data, bits) ==
  IF bits <= 4
  THEN ToString(bits) \o "'b" \o BinString(data[1], bits, 1)
  ELSE LET hex_chars == (bits + 3) \div 4
           full_hex == HexBytes(data)
       IN ToString(bits) \o "'h"
          \o (IF hex_chars % 2 = 1
              THEN HexDigit(data[1] % 16) \o HexBytes(Tail(data))
              ELSE full_hex)

format_signal_value(signal_value) ==
  CASE signal_value.kind = "Event" -> "Event"
    [] signal_value.kind = "Binary" ->
         format_binary_verilog(signal_value.data, signal_value.bits)
    [] OTHER -> "[" \o DebugBytesFrom(signal_value.data, 1) \o "]"

\* ------------------------------------------------------------------- state

VARIABLES
  condition,      \* the condition string of the call
  waveform,       \* the waveform of the call
  start_idx,      \* the call's start_idx
  end_idx,        \* the call's end_idx
  limit,          \* the call's limit, -1 for unlimited
  pc,             \* where find_conditional_events stands
  condition_ast,  \* the parsed condition
  signal_names,   \* the names extract_signal_names returned
  signal_cache,   \* the paths resolved, loaded and cached so far
  idx,            \* the position of the scan loop in the slice it enumerates
  events,         \* the events vector
  evaluated,      \* the time indices evaluate_condition was called at, in order
  result,         \* what the call returned
  call,           \* the function that was called
  signal_ref,     \* the signal_ref of a call of read_signal_values or find_signal_events
  time_indices,   \* the time_indices of a call of read_signal_values
  results         \* the results vector of read_signal_values

vars == <<condition, waveform, start_idx, end_idx, limit, pc, condition_ast,
          signal_names, signal_cache, idx, events, evaluated, result,
          call, signal_ref, time_indices, results>>

inputs == <<condition, waveform, start_idx, end_idx, limit>>

\* What only the functions of signal.rs use.
signal_call == <<call, signal_ref, time_indices, results>>

\* Result<Vec<String>, String>: Ok carries the events vector, Err a message
\* (the events vector is dropped); Panic is a Rust panic unwinding the call.
NoResult == [tag |-> "None", err |-> ""]
Ok == [tag |-> "Ok", err |-> ""]
Err(msg) == [tag |-> "Err", err |-> msg]
Panic(msg) == [tag |-> "Panic", err |-> msg]

\* ------------------------------------------------------------------ inputs

SigA == <<"a">>
SigB == <<"b">>

\* The time table of n time points, 10 time units apart.
TimeTable(n) == [k \in 1..n |-> 10 * (k - 1)]

Nanoseconds == [some |-> TRUE, factor |-> 1, unit |-> "ns"]

\* A wire of that many bits with the given values.
Wire(bits, values) == [kind |-> "Binary", bits |-> bits, values |-> values]

\* The waveform of the single one-bit wire a with the given values.
OneWire(av) ==
  [timescale |-> Nanoseconds,
   time_table |-> TimeTable(Len(av)),
   vars |-> (SigA :> Wire(1, av))]

\* The waveform of two one-bit wires a and b with the given values.
TwoWires(av, bv) ==
  [timescale |-> Nanoseconds,
   time_table |-> TimeTable(Len(av)),
   vars |-> (SigA :> Wire(1, av) @@ SigB :> Wire(1, bv))]

\* Every waveform of a, and of a and b, over at most MaxLen time points.
OneWireWaveforms ==
  UNION { { OneWire(av) : av \in [1..n -> {0, 1}] } : n \in 0..MaxLen }

TwoWireWaveforms ==
  UNION { { TwoWires(av, bv) : av \in [1..n -> {0, 1}], bv \in [1..n -> {0, 1}] } :
          n \in 0..MaxLen }

\* The condition strings scanned over the waveforms of a, in words.
OneWireConditions ==
  { <<"a">>,
    <<"!", "a">>,
    <<"$past", "(", "a", ")">>,
    <<"$past", "(", "$past", "(", "a", ")", ")">>,
    <<"!", "$past", "(", "a", ")", " ", "&&", " ", "a">>,
    <<"a", " ", "==", " ", "1'b1">>,
    <<"$past", "(", "a", ")", " ", "==", " ", "1'b0">>,
    <<"a", " ", "&&", " ", "c">> }

\* The condition strings scanned over the waveforms of a and b, in words.
TwoWireConditions ==
  { <<"a", " ", "&&", " ", "b">>,
    <<"a", " ", "||", " ", "b">>,
    <<"a", " ", "!=", " ", "b">>,
    <<"a", " ", "||", " ", "$past", "(", "!", "b", " ", "==", " ", "1'b0", ")">> }

\* The state when find_conditional_events is entered.
Entry ==
  /\ pc = "parse"
  /\ condition_ast = NoAst
  /\ signal_names = <<>>
  /\ signal_cache = {}
  /\ idx = 0
  /\ events = <<>>
  /\ evaluated = <<>>
  /\ result = NoResult
  /\ call = "find_conditional_events"
  /\ signal_ref = <<>>
  /\ time_indices = <<>>
  /\ results = <<>>

\* Calls over the waveforms of a with every range, and over the waveforms of
\* a and b with every start and an end past the table.
Init ==
  /\ \/ /\ condition \in {Text(w) : w \in OneWireConditions}
        /\ waveform \in OneWireWaveforms
        /\ end_idx \in 0..MaxLen
     \/ /\ condition \in {Text(w) : w \in TwoWireConditions}
        /\ waveform \in TwoWireWaveforms
        /\ end_idx = MaxLen
  /\ start_idx \in 0..MaxLen
  /\ limit \in -1..MaxLimit
  /\ Entry

\* The words of the enumerated condition strings of the parser.
ParseWords == {"a", "b", "&&", "||", "==", "!=", "=", "!", "(", ")", "$past", "1'b1"}

\* Longer malformed and well-formed condition strings, in words.
LongConditions ==
  { <<"$past", "(", "a", ")", ")">>,
    <<"$past", "(", "(", "a", ")">>,
    <<"(", "a", " ", "&&", " ", "b">>,
    <<"(", "a", " ", "&&", " ", ")", ")">>,
    <<"a", " ", "=", " ", "1'b1">>,
    <<"a", " ", "b">>,
    <<"$past", "(", "b", ")", " ", "==", " ", "a", " ", "||", " ",
      "b", " ", "!=", " ", "1'b1", " ", "&&", " ", "a">> }

\* Condition strings that mix the operators, in words.
PrecedenceConditions ==
  { <<"a", " ", "||", " ", "b", " ", "&&", " ", "c">>,
    <<"a", " ", "&&", " ", "b", " ", "==", " ", "c">>,
    <<"(", "a", " ", "||", " ", "b", ")", " ", "&&", " ", "c">>,
    <<"!", "a", " ", "&&", " ", "b">>,
    <<"a", " ", "==", " ", "b", " ", "&", " ", "c">>,
    <<"a", " ", "|", " ", "b", " ", "^", " ", "c", " ", "&", " ", "d">>,
    <<"!", "a", " ", "&", " ", "b">> }

RECURSIVE WordSeqs(_)
\* The sequences of exactly n words of ParseWords.
WordSeqs(n) ==
  IF n = 0 THEN {<<>>}
  ELSE {Append(w, x) : w \in WordSeqs(n - 1), x \in ParseWords}

\* Calls with every condition string of at most MaxWords words, and the
\* longer ones, over one waveform of a and b.
InitParse ==
  /\ condition \in {Text(w) : w \in UNION {WordSeqs(n) : n \in 0..MaxWords}
                                   \cup LongConditions \cup PrecedenceConditions
                                   \cup OneWireConditions
                                   \cup TwoWireConditions}
  /\ waveform = TwoWires(<<0, 1>>, <<1, 1>>)
  /\ start_idx = 0
  /\ end_idx \in 0..1
  /\ limit \in {-1, 1}
  /\ Entry

SigValid == Chars("valid")
SigReady == Chars("ready")

\* A waveform of valid and ready over the time indices 0 to 6.
ValidReady(valid, ready) ==
  [timescale |-> Nanoseconds,
   time_table |-> TimeTable(Len(valid)),
   vars |-> (SigValid :> Wire(1, valid) @@ SigReady :> Wire(1, ready))]

\* The waveform of the end-to-end scenario: ready rises at index 3.
ScenarioWaveform == ValidReady(<<0, 0, 1, 1, 1, 0, 0>>, <<0, 0, 0, 1, 1, 1, 0>>)

\* The waveform of test_find_conditional_events_lib: ready rises at index 4.
LibTestWaveform == ValidReady(<<0, 0, 1, 1, 1, 0, 0>>, <<0, 0, 0, 0, 1, 1, 0>>)

ValidAndReady == Text(<<"valid", " ", "&&", " ", "ready">>)
ValidOrReady == Text(<<"valid", " ", "||", " ", "ready">>)

\* Calls over the two waveforms of valid and ready, with every range within
\* them.
InitScenario ==
  /\ condition \in {ValidAndReady, ValidOrReady, Text(<<"valid">>), Text(<<"!", "ready">>)}
  /\ waveform \in {ScenarioWaveform, LibTestWaveform}
  /\ start_idx \in 0..(Len(ScenarioWaveform.time_table) - 1)
  /\ end_idx \in 0..(Len(ScenarioWaveform.time_table) - 1)
  /\ limit \in -1..MaxLimit
  /\ Entry

SigN == <<"n">>
SigW == <<"w">>

\* The waveform of a 4-bit wire n and a 9-bit wire w with the given values.
WideWires(nv, wv) ==
  [timescale |-> Nanoseconds,
   time_table |-> TimeTable(Len(nv)),
   vars |-> (SigN :> Wire(4, nv) @@ SigW :> Wire(9, wv))]

\* The waveforms of n and w over two time points: n holds 0, 3 or 15, and w
\* holds 0, 3 or 256, which takes its second byte.
WideWaveforms ==
  { WideWires(nv, wv) : nv \in [1..2 -> {0, 3, 15}], wv \in [1..2 -> {0, 3, 256}] }

\* The condition strings scanned over the waveforms of n and w, in words of
\* one character.
WideConditions ==
  { <<"n", "=", "=", "3", "'", "d", "3">>,
    <<"n", "!", "=", "3", "'", "d", "3">>,
    <<"w", "=", "=", "9", "'", "d", "2", "5", "6">>,
    <<"w", "!", "=", "9", "'", "h", "1", "0", "0">>,
    <<"w", "=", "=", "9", "'", "d", "1">>,
    <<"n", "=", "=", "w">>,
    <<"4", "'", "b", "0", "0", "1", "1", "=", "=", "3", "'", "d", "3">>,
    <<"n", "&", "&", "w">>,
    <<"n", "|", "|", "w">>,
    <<"!", "n">>,
    <<"!", "w", "&", "&", "n", "=", "=", "w">>,
    <<"n", "&", "&", "2", "'", "b", "1", "0">>,
    <<"1", "'", "b", "1">>,
    <<"!", "n", "=", "=", "w">> }

\* Calls over the waveforms of n and w.
InitWide ==
  /\ condition \in {Text(w) : w \in WideConditions}
  /\ waveform \in WideWaveforms
  /\ start_idx \in 0..1
  /\ end_idx = 1
  /\ limit \in {-1, 1}
  /\ Entry

\* Valid sized literals, each with the width of its prefix and the number its
\* digits spell.
LiteralCases ==
  { [token |-> <<"4", "'", "b", "0", "0", "1", "1">>, width |-> 4, magnitude |-> 3],
    [token |-> <<"4", "'", "b", "1", "1">>, width |-> 4, magnitude |-> 3],
    [token |-> <<"4", "'", "B", "0", "_", "0", "1", "1">>, width |-> 4, magnitude |-> 3],
    [token |-> <<"3", "'", "d", "3">>, width |-> 3, magnitude |-> 3],
    [token |-> <<"3", "'", "d", "0", "0", "3">>, width |-> 3, magnitude |-> 3],
    [token |-> <<"4", "'", "d", "1", "_", "5">>, width |-> 4, magnitude |-> 15],
    [token |-> <<"8", "'", "h", "0", "f">>, width |-> 8, magnitude |-> 15],
    [token |-> <<"8", "'", "H", "F">>, width |-> 8, magnitude |-> 15],
    [token |-> <<"1", "2", "'", "h", "0", "_", "0", "f">>, width |-> 12, magnitude |-> 15],
    [token |-> <<"1", "'", "b", "0">>, width |-> 1, magnitude |-> 0] }

\* Tokens of literal shape that are malformed: x, z or another digit in a
\* binary literal, an unrecognized or missing base, a malformed width.
MalformedLiterals ==
  { <<"4", "'", "b", "x", "x">>,
    <<"4", "'", "b", "1", "0", "z", "1">>,
    <<"4", "'", "b", "1", "2">>,
    <<"4", "'", "q", "3">>,
    <<"4", "'">>,
    <<"'", "b", "1">>,
    <<"x", "'", "b", "1">>,
    <<"4", "'", "d", "1", "a">>,
    <<"4", "'", "h", "g">> }

\* Calls that compare the 4-bit wire n with a token of literal shape.
InitLiteral ==
  /\ condition \in {<<"n", "=", "=">> \o c.token : c \in LiteralCases}
                     \cup {<<"n", "=", "=">> \o token : token \in MalformedLiterals}
  /\ waveform \in {WideWires(nv, <<0, 0>>) : nv \in [1..2 -> {0, 3, 15}]}
  /\ start_idx \in 0..1
  /\ end_idx = 1
  /\ limit \in {-1, 1}
  /\ Entry

\* Condition strings with the bitwise operators and the bit-selects of the
\* tests, and two without, in words.
BitwiseConditions ==
  { <<"n", " ", "&", " ", "w">>,
    <<"n", " ", "|", " ", "w">>,
    <<"n", " ", "^", " ", "w">>,
    <<"~", "n">>,
    <<"~", "4", "'", "b", "0", "1", "0", "1">>,
    <<"~", "~", "n", " ", "==", " ", "n">>,
    <<"~", "~", "n">>,
    <<"~", "n", " ", "&", " ", "n">>,
    <<"n", "[", "1", ":", "0", "]", " ", "==", " ", "2", "'", "b", "1", "1">>,
    <<"n", "[", "3", ":", "2", "]", " ", "==", " ", "2", "'", "b", "0", "0">>,
    <<"n", "[", "0", "]", " ", "==", " ", "1'b1">>,
    <<"n", "[", "0", ":", "0", "]", " ", "==", " ", "1'b1">>,
    <<"w", "[", "8", "]", " ", "==", " ", "1'b1">>,
    <<"n", " ", "&&", " ", "w">>,
    <<"n", " ", "==", " ", "w">> }

\* The digits a bit-select of n can name, bit 0 first.
BitNames == <<"0", "1", "2", "3">>

\* The bit-selects of n and of w whose msb is below their lsb, alone and
\* compared with a literal, in words.
InvertedSelects ==
  UNION { { <<s, "[", BitNames[b[1]], ":", BitNames[b[2]], "]">>,
            <<s, "[", BitNames[b[1]], ":", BitNames[b[2]], "]", " ", "==", " ", "2", "'", "b", "1", "1">> } :
          s \in {"n", "w"},
          b \in {p \in (DOMAIN BitNames) \X (DOMAIN BitNames) : p[1] < p[2]} }

\* Calls with the bitwise conditions over the waveforms of n and w.
InitBitwise ==
  /\ condition \in {Text(w) : w \in BitwiseConditions \cup InvertedSelects}
  /\ waveform \in WideWaveforms
  /\ start_idx \in 0..1
  /\ end_idx = 1
  /\ limit \in {-1, 1}
  /\ Entry

SigE == <<"e">>

\* The waveform of the event variable e, which fires at every one of two
\* time points, and the one-bit wire a with the given values.
EventAndWire(av) ==
  [timescale |-> Nanoseconds,
   time_table |-> TimeTable(Len(av)),
   vars |-> (SigE :> [kind |-> "Event", bits |-> 0, values |-> [k \in 1..Len(av) |-> 0]]
             @@ SigA :> Wire(1, av))]

EventWaveforms == { EventAndWire(av) : av \in [1..2 -> {0, 1}] }

\* Conditions that evaluate e as a boolean, in words.
EventBooleanConditions ==
  { <<"e">>,
    <<"!", "e">>,
    <<"e", " ", "&&", " ", "a">>,
    <<"e", " ", "||", " ", "a">> }

\* Conditions that evaluate e as an operand of a comparison, in words.
EventComparisonConditions ==
  { <<"e", " ", "==", " ", "1'b1">>,
    <<"a", " ", "!=", " ", "e">>,
    <<"a", " ", "&&", " ", "e", " ", "==", " ", "a">> }

\* Calls with the conditions over e and a.
InitEvent ==
  /\ condition \in {Text(w) : w \in EventBooleanConditions \cup EventComparisonConditions}
  /\ waveform \in EventWaveforms
  /\ start_idx \in 0..1
  /\ end_idx = 1
  /\ limit \in {-1, 1}
  /\ Entry

\* The waveforms of a and b over two time points in which b may get its
\* first value only at the second one.
LateWireWaveforms ==
  { TwoWires(av, bv) : av \in [1..2 -> {0, 1}],
                       bv \in [1..2 -> {0, 1}] \cup {<<-1, 0>>, <<-1, 1>>} }

\* Conditions whose matches display a and b, in words.
DisplayConditions ==
  { <<"a", " ", "&&", " ", "b">>,
    <<"b", " ", "==", " ", "a">>,
    <<"b", " ", "&&", " ", "a", " ", "&&", " ", "b">>,
    <<"a", " ", "||", " ", "$past", "(", "b", ")">>,
    <<"$past", "(", "b", ")", " ", "||", " ", "a", " ", "||", " ", "!", "a">> }

\* Calls with the display conditions over the waveforms of a and b.
InitDisplay ==
  /\ condition \in {Text(w) : w \in DisplayConditions}
  /\ waveform \in LateWireWaveforms
  /\ start_idx \in 0..1
  /\ end_idx \in 0..1
  /\ limit \in {-1, 1}
  /\ Entry

\* ------------------------------------------------------------------ actions

\* let condition_ast = parse_condition(condition)?;
\* let signal_names = extract_signal_names(&condition_ast);
ParseCondition ==
  /\ pc = "parse"
  /\ LET parsed == parse_condition(condition)
     IN IF parsed.ok
        THEN /\ condition_ast' = parsed.ast
             /\ signal_names' = extract_signal_names(parsed.ast)
             /\ pc' = "resolve"
             /\ UNCHANGED result
        ELSE /\ result' = Err(parsed.err)
             /\ pc' = "done"
             /\ UNCHANGED <<condition_ast, signal_names>>
  /\ UNCHANGED <<inputs, signal_call, signal_cache, idx, events, evaluated>>

\* A resolution loop that skips the names the hierarchy does not have.
ResolveFromSkippingMissing(wave, names, k, cache) ==
  [ok |-> TRUE,
   cache |-> cache \cup ({names[j] : j \in k..Len(names)} \cap DOMAIN wave.vars)]

RECURSIVE ResolveFrom(_, _, _, _)
\* The loop that finds, loads and caches each signal, from the k-th name on:
\* the cache it leaves and whether every name was found.
ResolveFrom(wave, names, k, cache) ==
  IF k > Len(names) THEN [ok |-> TRUE, cache |-> cache]
  ELSE LET found == find_signal_by_path(wave, names[k])
       IN IF ~found.found THEN [ok |-> FALSE, cache |-> cache]
          ELSE ResolveFrom(wave, names, k + 1, cache \cup {found.signal_ref})

\* A range that ends at the end index it was given.
EndNotClamped(end, len) == end

\* end_idx.min(time_table.len().saturating_sub(1))
ClampedEnd(end, len) == IF len = 0 THEN 0 ELSE IF end < len - 1 THEN end ELSE len - 1

\* Whether time_table[start..=end] panics: the range ends past the table, or
\* starts more than one past its end.
SlicePanics(start, end, len) == end + 1 > len \/ start > end + 1

\* The resolution loop, the time table and the slice the scan iterates.
ResolveSignals ==
  /\ pc = "resolve"
  /\ LET resolved == ResolveFrom(waveform, signal_names, 1, {})
         len == Len(waveform.time_table)
         end == ClampedEnd(end_idx, len)
     IN /\ signal_cache' = resolved.cache
        /\ IF ~resolved.ok
           THEN /\ result' = Err("Signal not found")
                /\ pc' = "done"
           ELSE IF SlicePanics(start_idx, end, len)
           THEN /\ result' = Panic("slice index out of range")
                /\ pc' = "done"
           ELSE IF start_idx > end
           THEN /\ result' = Ok
                /\ pc' = "done"
           ELSE /\ result' = result
                /\ pc' = "scan"
  /\ UNCHANGED <<inputs, signal_call, condition_ast, signal_names, idx, events, evaluated>>

RECURSIVE SignalValuesFrom(_, _, _, _, _)
\* The "path = value" entries of an event from the k-th name on: one per name
\* that is cached and has a value at the time index.
SignalValuesFrom(names, k, wave, cache, t) ==
  IF k > Len(names) THEN <<>>
  ELSE LET rest == SignalValuesFrom(names, k + 1, wave, cache, t)
       IN IF names[k] \in cache /\ ValueAt(wave, names[k], t).kind # "None"
          THEN <<[name |-> names[k],
                  value |-> format_signal_value(ValueAt(wave, names[k], t))]>> \o rest
          ELSE rest

\* The three parts format!("Time index {} ({}): {}") puts together.
Event(wave, names, cache, t) ==
  [time_idx |-> t,
   formatted_time |-> format_time(wave.time_table[t + 1], wave.timescale),
   signal_values |-> SignalValuesFrom(names, 1, wave, cache, t)]

RECURSIVE StringOf(_)
\* The String of a sequence of characters.
StringOf(chars) == IF chars = <<>> THEN "" ELSE Head(chars) \o StringOf(Tail(chars))

RECURSIVE JoinFrom(_, _)
\* signal_values.join(", ") from the k-th entry on, each entry being
\* format!("{} = {}", signal_name, value_str).
JoinFrom(signal_values, k) ==
  IF k > Len(signal_values) THEN ""
  ELSE (IF k > 1 THEN ", " ELSE "")
       \o StringOf(signal_values[k].name) \o " = " \o signal_values[k].value
       \o JoinFrom(signal_values, k + 1)

\* format!("Time index {} ({}): {}", time_idx, formatted_time, ...)
EventString(event) ==
  "Time index " \o ToString(event.time_idx) \o " (" \o event.formatted_time \o "): "
  \o JoinFrom(event.signal_values, 1)

\* The limit check without its test of the sign: the unlimited sentinel ends
\* the scan like a limit that is reached.
LimitReachedIgnoringSign(lim, evs) == Len(evs) >= lim

\* limit >= 0 && events.len() >= limit as usize
LimitReached(lim, evs) == lim >= 0 /\ Len(evs) >= lim

\* The position in the slice taken for the time index.
TimeIdxWithoutStart(start, i) == i

\* let time_idx = start_idx + idx;
TimeIdx(start, i) == start + i

\* A failed evaluation that returns its error beside the events found so far.
OnEvalErrorKeepingEvents(evs, msg) == [result |-> Err(msg), events |-> evs]

\* What a failed evaluation makes of the call: the `?` returns the error and
\* drops the events vector.
OnEvalError(evs, msg) == [result |-> Err(msg), events |-> <<>>]

\* One iteration of the scan loop, and the return when it was the last one.
ScanStep ==
  /\ pc = "scan"
  /\ LET time_idx == TimeIdx(start_idx, idx)
         value == evaluate_condition(condition_ast, waveform, signal_cache, time_idx)
         end == ClampedEnd(end_idx, Len(waveform.time_table))
         pushed == IF value.ok /\ value.val
                   THEN Append(events, Event(waveform, signal_names, signal_cache, time_idx))
                   ELSE events
     IN /\ evaluated' = Append(evaluated, time_idx)
        /\ IF ~value.ok
           THEN /\ result' = OnEvalError(events, value.err).result
                /\ events' = OnEvalError(events, value.err).events
                /\ pc' = "done"
                /\ UNCHANGED idx
           ELSE /\ events' = pushed
                /\ IF LimitReached(limit, pushed) \/ idx = end - start_idx
                   THEN /\ result' = Ok
                        /\ pc' = "done"
                        /\ UNCHANGED idx
                   ELSE /\ idx' = idx + 1
                        /\ UNCHANGED <<result, pc>>
  /\ UNCHANGED <<inputs, signal_call, condition_ast, signal_names, signal_cache>>

RECURSIVE ScanFrom(_, _, _, _, _, _, _, _, _)
\* What the scan loop returns from position i of its slice on, with the
\* events pushed so far.
ScanFrom(ast, wave, names, cache, start, end, lim, i, evs) ==
  LET time_idx == TimeIdx(start, i)
      value == evaluate_condition(ast, wave, cache, time_idx)
      pushed == IF value.ok /\ value.val
                THEN Append(evs, Event(wave, names, cache, time_idx))
                ELSE evs
  IN IF ~value.ok THEN OnEvalError(evs, value.err)
     ELSE IF LimitReached(lim, pushed) \/ i = end - start
     THEN [result |-> Ok, events |-> pushed]
     ELSE ScanFrom(ast, wave, names, cache, start, end, lim, i + 1, pushed)

\* What a call of find_conditional_events returns: its result and, when it
\* is Ok, its events.
find_conditional_events(wave, cond, start, end_arg, lim) ==
  LET parsed == parse_condition(cond)
      names == extract_signal_names(parsed.ast)
      resolved == ResolveFrom(wave, names, 1, {})
      len == Len(wave.time_table)
      end == ClampedEnd(end_arg, len)
  IN IF ~parsed.ok THEN [result |-> Err(parsed.err), events |-> <<>>]
     ELSE IF ~resolved.ok THEN [result |-> Err("Signal not found"), events |-> <<>>]
     ELSE IF SlicePanics(start, end, len)
     THEN [result |-> Panic("slice index out of range"), events |-> <<>>]
     ELSE IF start > end THEN [result |-> Ok, events |-> <<>>]
     ELSE ScanFrom(parsed.ast, wave, names, resolved.cache, start, end, lim, 0, <<>>)

Next == ParseCondition \/ ResolveSignals \/ ScanStep

\* ---------------------------------------------------------------- signal.rs

\* The waveforms of a over at most MaxLen time points in which a may get its
\* first value after the first time point.
SignalWaveforms ==
  UNION { { OneWire(av) : av \in { v \in [1..n -> {-1, 0, 1}] :
                                      \A k \in 2..n : v[k] = -1 => v[k - 1] = -1 } } :
          n \in 0..MaxLen }

\* The state when read_signal_values or find_signal_events is entered: the
\* caller has loaded the signal, or has not.
SignalEntry ==
  /\ condition = <<>>
  /\ condition_ast = NoAst
  /\ signal_names = <<>>
  /\ signal_cache \in {{}, {SigA}}
  /\ signal_ref = SigA
  /\ waveform \in SignalWaveforms
  /\ idx = 0
  /\ events = <<>>
  /\ evaluated = <<>>
  /\ results = <<>>
  /\ result = NoResult
  /\ pc = "loop"

\* Calls of read_signal_values with up to two time indices, in and out of
\* the time table, in any order, and calls of find_signal_events with every
\* range and limit.
InitSignal ==
  /\ SignalEntry
  /\ \/ /\ call = "read_signal_values"
        /\ time_indices \in UNION { [1..n -> 0..MaxLen] : n \in 0..2 }
        /\ start_idx = 0
        /\ end_idx = 0
        /\ limit = -1
     \/ /\ call = "find_signal_events"
        /\ time_indices = <<>>
        /\ start_idx \in 0..MaxLen
        /\ end_idx \in 0..MaxLen
        /\ limit \in -1..MaxLimit

\* format!("Time index {} out of range (max: {})", time_idx, max)
OutOfRangeEntry(time_idx, max) ==
  "Time index " \o ToString(time_idx) \o " out of range (max: " \o max \o ")"

\* format!("Time index {} ({}): {}", time_idx, formatted_time, value_str)
ValueEntry(wave, time_idx, signal_value) ==
  "Time index " \o ToString(time_idx)
  \o " (" \o format_time(wave.time_table[time_idx + 1], wave.timescale) \o "): "
  \o format_signal_value(signal_value)

\* usize::MAX, what 0 - 1 wraps to where overflow is not checked.
UsizeMaxString == "18446744073709551615"

\* read_signal_values: the lookup of the signal, one iteration of the loop
\* over time_indices, and the return after the last one.
ReadSignalValues ==
  /\ call = "read_signal_values"
  /\ pc = "loop"
  /\ LET len == Len(waveform.time_table)
         time_idx == time_indices[idx + 1]
         signal_value == ValueAt(waveform, signal_ref, time_idx)
     IN IF signal_ref \notin signal_cache
        THEN /\ result' = Err("Signal not found after loading")
             /\ pc' = "done"
             /\ UNCHANGED <<idx, results>>
        ELSE IF idx >= Len(time_indices)
        THEN /\ result' = Ok
             /\ pc' = "done"
             /\ UNCHANGED <<idx, results>>
        ELSE IF time_idx >= len /\ len = 0
        THEN \/ /\ result' = Panic("attempt to subtract with overflow")
                /\ results' = <<>>
                /\ pc' = "done"
                /\ UNCHANGED idx
             \/ /\ results' = Append(results, OutOfRangeEntry(time_idx, UsizeMaxString))
                /\ idx' = idx + 1
                /\ UNCHANGED <<result, pc>>
        ELSE IF time_idx >= len
        THEN /\ results' = Append(results, OutOfRangeEntry(time_idx, ToString(len - 1)))
             /\ idx' = idx + 1
             /\ UNCHANGED <<result, pc>>
        ELSE IF signal_value.kind = "None"
        THEN /\ result' = Err("No data available for this time index")
             /\ results' = <<>>
             /\ pc' = "done"
             /\ UNCHANGED idx
        ELSE /\ results' = Append(results, ValueEntry(waveform, time_idx, signal_value))
             /\ idx' = idx + 1
             /\ UNCHANGED <<result, pc>>
  /\ UNCHANGED <<inputs, call, signal_ref, time_indices, condition_ast, signal_names,
                 signal_cache, events, evaluated>>

RECURSIVE ChangesFrom(_, _, _)
\* Signal::iter_changes from the k-th time point on: the time index and the
\* value of each change, `last` being the value before.
ChangesFrom(values, k, last) ==
  IF k > Len(values) THEN <<>>
  ELSE IF values[k] >= 0 /\ values[k] # last
  THEN <<[time_idx |-> k - 1, value |-> values[k]]>> \o ChangesFrom(values, k + 1, values[k])
  ELSE ChangesFrom(values, k + 1, last)

iter_changes(wave, ref) == ChangesFrom(wave.vars[ref].values, 1, -1)

\* A limit check that lets one event more through.
LimitCheckedOffByOne(lim, evs) == lim >= 0 /\ Len(evs) > lim

\* The limit check of find_signal_events, made before the push:
\* limit >= 0 && events.len() >= limit as usize
LimitCheckedBeforePush(lim, evs) == lim >= 0 /\ Len(evs) >= lim

\* find_signal_events: the lookup of the signal, one iteration of the loop
\* over the changes, and the return after the last one or at the break.
FindSignalEvents ==
  /\ call = "find_signal_events"
  /\ pc = "loop"
  /\ LET changes == iter_changes(waveform, signal_ref)
         change == changes[idx + 1]
         var == waveform.vars[signal_ref]
         entry == ValueEntry(waveform, change.time_idx,
                             BinaryValue(BytesOf(change.value, var.bits), var.bits))
     IN IF signal_ref \notin signal_cache
        THEN /\ result' = Err("Signal not found after loading")
             /\ pc' = "done"
             /\ UNCHANGED <<idx, events>>
        ELSE IF idx >= Len(changes)
        THEN /\ result' = Ok
             /\ pc' = "done"
             /\ UNCHANGED <<idx, events>>
        ELSE IF change.time_idx < start_idx \/ change.time_idx > end_idx
        THEN /\ idx' = idx + 1
             /\ UNCHANGED <<result, pc, events>>
        ELSE IF LimitCheckedBeforePush(limit, events)
        THEN /\ result' = Ok
             /\ pc' = "done"
             /\ UNCHANGED <<idx, events>>
        ELSE /\ events' = Append(events, [time_idx |-> change.time_idx, entry |-> entry])
             /\ idx' = idx + 1
             /\ UNCHANGED <<result, pc>>
  /\ UNCHANGED <<inputs, signal_call, condition_ast, signal_names, signal_cache, evaluated>>

NextSignal == ReadSignalValues \/ FindSignalEvents

Spec == Init /\ [][Next]_vars

SpecParse == InitParse /\ [][Next]_vars

SpecWide == InitWide /\ [][Next]_vars

SpecLiteral == InitLiteral /\ [][Next]_vars

SpecBitwise == InitBitwise /\ [][Next]_vars

SpecEvent == InitEvent /\ [][Next]_vars

SpecDisplay == InitDisplay /\ [][Next]_vars

SpecSignal == InitSignal /\ [][NextSignal]_vars

SpecScenario == InitScenario /\ [][Next]_vars

\* ------------------------------------------------------------------ properties

\* The time indices of the events, in the order of the events.
EventIndices == [k \in 1..Len(events) |-> events[k].time_idx]

\* C1: every match of find_conditional_events carries a time index t with
\* start <= t <= end, and t at most the last index of the time table.
MatchesWithinRange ==
  \A k \in 1..Len(events) :
    /\ start_idx <= events[k].time_idx
    /\ events[k].time_idx <= end_idx
    /\ events[k].time_idx <= Len(waveform.time_table) - 1

\* A call that starts after index 0, asks for an end past the time table and
\* returns a match.
MatchesWithinRangeWitness ==
  /\ pc = "done" /\ result = Ok
  /\ start_idx >= 1 /\ end_idx >= Len(waveform.time_table)
  /\ Len(events) >= 1

\* C2: for every limit N >= 0, N = 0 included, find_conditional_events
\* returns at most N matches.
AtMostLimitMatches == limit >= 0 => Len(events) <= limit

\* A call with limit 0 that returns a match.
LimitZeroReturnsMatch ==
  pc = "done" /\ result = Ok /\ limit = 0 /\ Len(events) = 1

\* C3: with limit N >= 0 the scan stops as soon as N matches are emitted:
\* when a time index is evaluated, fewer than N matches have been emitted at
\* the indices before it.
NoEvaluationAfterLimit ==
  limit >= 0 =>
    \A k \in 1..Len(evaluated) :
      Cardinality({j \in 1..Len(events) : events[j].time_idx < evaluated[k]}) < limit

\* A call with limit 0 that evaluates the condition at a time index.
LimitZeroEvaluates == limit = 0 /\ evaluated # <<>>

\* The time indices of the clamped range at which the condition is true.
TruthyIndices ==
  {t \in start_idx..ClampedEnd(end_idx, Len(waveform.time_table)) :
     evaluate_condition(condition_ast, waveform, signal_cache, t) = EOk(TRUE)}

\* C4: without a limit and without an evaluation error, the returned matches
\* are one per time index of [start, min(end, last index)] at which the
\* condition is true, none for any other index, in strictly increasing order.
UnlimitedScanReturnsTruthyIndices ==
  (pc = "done" /\ result = Ok /\ limit < 0) =>
    /\ {EventIndices[k] : k \in 1..Len(events)} = TruthyIndices
    /\ \A j, k \in 1..Len(events) : j < k => EventIndices[j] < EventIndices[k]

\* An unlimited call that returns two matches and passes over an index of its
\* range at which the condition is false.
UnlimitedScanWitness ==
  /\ pc = "done" /\ result = Ok /\ limit < 0
  /\ Len(events) >= 2
  /\ Len(events) < Len(evaluated)

\* C5: on the scenario's waveform, scanning [0, 6] with no limit,
\* `valid && ready` matches only index 4 and `valid || ready` matches exactly
\* the indices 2, 3, 4 and 5.
ScenarioMatches ==
  (pc = "done" /\ waveform = ScenarioWaveform
   /\ start_idx = 0 /\ end_idx = 6 /\ limit = -1) =>
    /\ condition = ValidAndReady => result = Ok /\ EventIndices = <<4>>
    /\ condition = ValidOrReady => result = Ok /\ EventIndices = <<2, 3, 4, 5>>

\* C5, amended: on the scenario's waveform, scanning [0, 6] with no limit,
\* `valid && ready` matches exactly the indices 3 and 4, where both are 1,
\* and `valid || ready` exactly the indices 2, 3, 4 and 5; index 4 is the
\* only match of `valid && ready` on the waveform of the test, where ready
\* rises at index 4.
ScenarioMatchesWhereBothAreOne ==
  (pc = "done" /\ start_idx = 0 /\ end_idx = 6 /\ limit = -1) =>
    /\ condition = ValidAndReady =>
         /\ result = Ok
         /\ waveform = ScenarioWaveform => EventIndices = <<3, 4>>
         /\ waveform = LibTestWaveform => EventIndices = <<4>>
    /\ condition = ValidOrReady => result = Ok /\ EventIndices = <<2, 3, 4, 5>>

\* The scan of `valid && ready` over [0, 6] of the scenario's waveform, with
\* no limit, has returned two matches.
ScenarioWitness ==
  /\ pc = "done" /\ waveform = ScenarioWaveform
  /\ start_idx = 0 /\ end_idx = 6 /\ limit = -1
  /\ condition = ValidAndReady
  /\ Len(evaluated) = 7 /\ Len(events) = 2

\* The literal 1'b0.
LiteralZero == [kind |-> "Binary", bits |-> <<FALSE>>, value |-> 0]

\* The operands Past is applied to in the statements about Past: a signal, a
\* negation, a Past and a conjunction.
PastOperands ==
  { MkSignal(SigA),
    MkNot(MkSignal(SigA)),
    MkPast(MkSignal(SigA)),
    MkAnd(MkSignal(SigA), MkNot(MkPast(MkSignal(SigA)))) }

PastOfA == Text(<<"$past", "(", "a", ")">>)
PastOfPastOfA == Text(<<"$past", "(", "$past", "(", "a", ")", ")">>)
PastEqualsZero == Text(<<"$past", "(", "a", ")", " ", "==", " ", "1'b0">>)

\* C6: Past(E) at time index 0 is false, (0, 1) as a value, for every E and
\* without an error, as a boolean operand and as an operand of Eq and Neq:
\* `$past(a) == 1'b0` scanned from index 0 does not fail.
PastAtIndexZeroIsFalse ==
  (evaluated # <<>> /\ evaluated[1] = 0) =>
    /\ \A e \in PastOperands :
         /\ evaluate_condition(MkPast(e), waveform, signal_cache, 0) = EOk(FALSE)
         /\ evaluate_condition(MkEq(MkPast(e), MkLiteral(LiteralZero)),
                               waveform, signal_cache, 0) = EOk(TRUE)
         /\ evaluate_condition(MkNeq(MkPast(e), MkLiteral(LiteralZero)),
                               waveform, signal_cache, 0) = EOk(FALSE)
    /\ (condition = PastEqualsZero /\ pc = "done") => result = Ok

\* The scan of `$past(a) == 1'b0` from index 0 has failed at index 0.
PastEqualsZeroFailsAtIndexZero ==
  /\ pc = "done" /\ condition = PastEqualsZero /\ start_idx = 0
  /\ evaluated = <<0>>
  /\ result = Err("No previous value at time index 0")

\* The value of variable a at time index t.
ValueOfA(t) == waveform.vars[SigA].values[t + 1]

\* C7: for every E and index t >= 1, Past(E) at t equals E at t - 1, and
\* Past(Past(E)) at t equals E at t - 2 when t >= 2 and is false when t < 2;
\* so `$past(a)` matches the indices after one where a is 1, and
\* `$past($past(a))` those two after one where a is 1.
PastComposesByDecrement ==
  (pc = "done" /\ result = Ok) =>
    /\ \A e \in PastOperands : \A t \in 0..(Len(waveform.time_table) - 1) :
         /\ t >= 1 =>
              /\ evaluate_condition(MkPast(e), waveform, signal_cache, t)
                   = evaluate_condition(e, waveform, signal_cache, t - 1)
              /\ evaluate_condition_to_value(MkPast(e), waveform, signal_cache, t)
                   = evaluate_condition_to_value(e, waveform, signal_cache, t - 1)
         /\ t >= 2 =>
              evaluate_condition(MkPast(MkPast(e)), waveform, signal_cache, t)
                = evaluate_condition(e, waveform, signal_cache, t - 2)
         /\ t < 2 =>
              evaluate_condition(MkPast(MkPast(e)), waveform, signal_cache, t) = EOk(FALSE)
    /\ (condition = PastOfA /\ limit < 0) =>
         {EventIndices[k] : k \in 1..Len(events)}
           = {t \in start_idx..ClampedEnd(end_idx, Len(waveform.time_table)) :
                t >= 1 /\ ValueOfA(t - 1) = 1}
    /\ (condition = PastOfPastOfA /\ limit < 0) =>
         {EventIndices[k] : k \in 1..Len(events)}
           = {t \in start_idx..ClampedEnd(end_idx, Len(waveform.time_table)) :
                t >= 2 /\ ValueOfA(t - 2) = 1}

\* The scan of `$past($past(a))` over indices below and from 2 has returned
\* a match.
PastComposesWitness ==
  /\ pc = "done" /\ result = Ok /\ limit < 0
  /\ condition = PastOfPastOfA
  /\ start_idx < 2
  /\ Len(events) >= 1

\* C8: if the evaluation of the condition fails at an index k the scan
\* reaches, the call ends there, returns that error and returns none of the
\* matches found at the indices before k.
EvaluationErrorIsTerminal ==
  \A k \in 1..Len(evaluated) :
    LET value == evaluate_condition(condition_ast, waveform, signal_cache, evaluated[k])
    IN ~value.ok =>
         /\ k = Len(evaluated)
         /\ pc = "done"
         /\ result = Err(value.err)
         /\ events = <<>>

\* A call that found a match at its first index and failed at a later one.
EvaluationErrorWitness ==
  /\ pc = "done" /\ result.tag = "Err"
  /\ Len(evaluated) >= 2
  /\ evaluate_condition(condition_ast, waveform, signal_cache, evaluated[1]) = EOk(TRUE)

\* C9: if a signal path of the condition cannot be resolved, the call
\* returns an error before the condition is evaluated at any time index.
UnresolvedSignalFailsBeforeEvaluation ==
  (/\ condition_ast # NoAst
   /\ \E k \in 1..Len(signal_names) :
        ~find_signal_by_path(waveform, signal_names[k]).found) =>
    /\ evaluated = <<>> /\ events = <<>>
    /\ pc \in {"resolve", "done"}
    /\ pc = "done" => result = Err("Signal not found")

\* The call with `a && c` has returned: a was resolved, c was not.
UnresolvedSignalWitness ==
  /\ pc = "done" /\ condition = Text(<<"a", " ", "&&", " ", "c">>)
  /\ SigA \in signal_cache
  /\ result = Err("Signal not found")

\* Whether the string has a `=` that is not part of `==` or `!=`: a run of
\* `=` that pairs up, after a `!` takes the first, with one left over.
HasBareEquals(chars) ==
  \E p \in 1..Len(chars) : \E q \in p..Len(chars) :
    /\ \A j \in p..q : chars[j] = "="
    /\ p = 1 \/ chars[p - 1] # "="
    /\ q = Len(chars) \/ chars[q + 1] # "="
    /\ (q - p + 1 - (IF p > 1 /\ chars[p - 1] = "!" THEN 1 ELSE 0)) % 2 = 1

\* The number of occurrences of the character c among the first n.
CountOf(chars, c, n) == Cardinality({p \in 1..n : chars[p] = c})

\* Whether a parenthesis of the string has no partner: a `)` with no `(`
\* open before it, or a `(` left open at the end.
HasUnmatchedParenthesis(chars) ==
  \/ \E n \in 1..Len(chars) : CountOf(chars, ")", n) > CountOf(chars, "(", n)
  \/ CountOf(chars, "(", Len(chars)) > CountOf(chars, ")", Len(chars))

\* Whether tokens are left after the condition the parser reads.
HasTrailingTokens(chars) ==
  LET tokenized == tokenize_condition(chars)
  IN /\ tokenized.ok
     /\ LET parsed == parse_or(tokenized.tokens)
        IN parsed.ok /\ parsed.rest # <<>>

\* C10: a condition string with a bare `=`, an unmatched parenthesis or
\* trailing tokens is rejected with an error before any signal is resolved
\* or any time index is evaluated; a bare `=` is never read as `==`.
MalformedConditionRejectedAtParse ==
  (\/ HasBareEquals(condition)
   \/ HasUnmatchedParenthesis(condition)
   \/ HasTrailingTokens(condition)) =>
    /\ signal_cache = {}
    /\ evaluated = <<>>
    /\ pc = "done" => result.tag = "Err"

\* The call with `a&&)` has resolved a before it fails.
UnmatchedParenthesisResolvesSignal ==
  /\ condition = Text(<<"a", "&&", ")">>)
  /\ pc = "done"
  /\ signal_names = <<SigA, <<")">>>>
  /\ SigA \in signal_cache
  /\ result = Err("Signal not found")

\* C10, the cases the parser does reject: a condition string with a bare
\* `=`, an unclosed `(`, or trailing tokens is rejected at the parse.
BareEqualsAndUnclosedRejectedAtParse ==
  (\/ HasBareEquals(condition)
   \/ CountOf(condition, "(", Len(condition)) > CountOf(condition, ")", Len(condition))
   \/ HasTrailingTokens(condition)) =>
    /\ condition_ast = NoAst
    /\ pc = "done" => result.tag = "Err"

\* The Literal node a literal token decodes to.
Lit(words) == MkLiteral(parse_verilog_literal(Text(words)).lit)

\* Operands of a comparison, each with the magnitude it has at time index t:
\* the number a signal holds, the number a literal's digits spell.
ComparisonOperands(t) ==
  { <<MkSignal(SigN), waveform.vars[SigN].values[t + 1]>>,
    <<MkSignal(SigW), waveform.vars[SigW].values[t + 1]>>,
    <<Lit(<<"3", "'", "d", "3">>), 3>>,
    <<Lit(<<"4", "'", "b", "0", "0", "1", "1">>), 3>>,
    <<Lit(<<"8", "'", "h", "0", "f">>), 15>>,
    <<Lit(<<"9", "'", "d", "2", "5", "6">>), 256>> }

\* C11: Eq and Neq compare magnitudes only: Eq(L, R) is true exactly when the
\* magnitudes of L and R are equal, whatever their widths, and Neq(L, R) is
\* the negation of Eq(L, R).
EqComparesMagnitudes ==
  \A t \in 0..(Len(waveform.time_table) - 1) :
    \A L \in ComparisonOperands(t) : \A R \in ComparisonOperands(t) :
      /\ evaluate_condition(MkEq(L[1], R[1]), waveform, DOMAIN waveform.vars, t)
           = EOk(L[2] = R[2])
      /\ evaluate_condition(MkNeq(L[1], R[1]), waveform, DOMAIN waveform.vars, t)
           = EOk(L[2] # R[2])

\* The scan of `w==9'd256` has returned no match from a waveform whose w
\* holds 256 at both time indices.
WideSignalEqualToLiteralNotMatched ==
  /\ pc = "done" /\ result = Ok /\ limit = -1 /\ start_idx = 0
  /\ condition = Text(<<"w", "=", "=", "9", "'", "d", "2", "5", "6">>)
  /\ waveform.vars[SigW].values = <<256, 256>>
  /\ events = <<>>

\* C11, for signals of at most 8 bits: Eq and Neq of the 4-bit signal and
\* the literals compare their magnitudes, and Neq is the negation of Eq.
EqComparesMagnitudesOfOneByte ==
  \A t \in 0..(Len(waveform.time_table) - 1) :
    \A L \in ComparisonOperands(t) : \A R \in ComparisonOperands(t) :
      (L[1] # MkSignal(SigW) /\ R[1] # MkSignal(SigW)) =>
        /\ evaluate_condition(MkEq(L[1], R[1]), waveform, DOMAIN waveform.vars, t)
             = EOk(L[2] = R[2])
        /\ evaluate_condition(MkNeq(L[1], R[1]), waveform, DOMAIN waveform.vars, t)
             = EOk(L[2] # R[2])

\* 1 for TRUE and 0 for FALSE.
Bit(b) == IF b THEN 1 ELSE 0

\* Operands of a logical node that the boolean evaluator evaluates, each with
\* the magnitude it has at time index t: signals of 4 and of 9 bits, a
\* comparison and a negation.
EvaluableLogicalOperands(t) ==
  { <<MkSignal(SigN), waveform.vars[SigN].values[t + 1]>>,
    <<MkSignal(SigW), waveform.vars[SigW].values[t + 1]>>,
    <<MkEq(MkSignal(SigN), Lit(<<"3", "'", "d", "3">>)),
      Bit(waveform.vars[SigN].values[t + 1] = 3)>>,
    <<MkNot(MkSignal(SigW)), Bit(waveform.vars[SigW].values[t + 1] = 0)>> }

\* Operands of a logical node: those above and a literal of 2 bits.
LogicalOperands(t) ==
  EvaluableLogicalOperands(t) \cup {<<Lit(<<"2", "'", "b", "1", "0">>), 2>>}

\* Whether And, Or and Not over the operands L and R reduce them to their
\* truthiness at time index t and give true or false.
ReducesToTruthiness(L, R, t) ==
  /\ evaluate_condition(MkAnd(L[1], R[1]), waveform, DOMAIN waveform.vars, t)
       = EOk(L[2] # 0 /\ R[2] # 0)
  /\ evaluate_condition(MkOr(L[1], R[1]), waveform, DOMAIN waveform.vars, t)
       = EOk(L[2] # 0 \/ R[2] # 0)
  /\ evaluate_condition(MkNot(L[1]), waveform, DOMAIN waveform.vars, t)
       = EOk(L[2] = 0)

\* C12: at every index And(L, R) is true iff both L and R are non-zero,
\* Or(L, R) iff at least one is, Not(E) iff E is zero, for operands of any
\* width, and the result is the 1-bit value true or false.
LogicalNodesReduceToTruthiness ==
  \A t \in 0..(Len(waveform.time_table) - 1) :
    \A L \in LogicalOperands(t) : \A R \in LogicalOperands(t) :
      ReducesToTruthiness(L, R, t)

\* The scan of `n&&2'b10` has failed at its first index on the literal.
LiteralOperandFailsScan ==
  /\ pc = "done"
  /\ condition = Text(<<"n", "&", "&", "2", "'", "b", "1", "0">>)
  /\ Len(evaluated) = 1
  /\ result = Err("Literals must be used in comparisons")

\* C12, for the operands the boolean evaluator evaluates: And, Or and Not
\* over signals of any width, comparisons and negations reduce them to
\* their truthiness.
LogicalNodesReduceEvaluableOperands ==
  \A t \in 0..(Len(waveform.time_table) - 1) :
    \A L \in EvaluableLogicalOperands(t) : \A R \in EvaluableLogicalOperands(t) :
      ReducesToTruthiness(L, R, t)

\* Literals with their magnitudes.
LiteralOperands ==
  { <<Lit(<<"1", "'", "b", "1">>), 1>>,
    <<Lit(<<"1", "'", "b", "0">>), 0>>,
    <<Lit(<<"2", "'", "b", "1", "0">>), 2>> }

\* C13: with all signals resolved and the index in range, evaluation never
\* fails because of where a node sits: a Literal used as the condition is
\* true iff its magnitude is non-zero, a Literal is a valid logical operand,
\* and Not, And, Or, Eq and Neq nodes are valid operands of Eq and Neq.
EveryNodeEvaluatesInEveryPosition ==
  \A t \in 0..(Len(waveform.time_table) - 1) :
    /\ \A l \in LiteralOperands :
         /\ evaluate_condition(l[1], waveform, DOMAIN waveform.vars, t) = EOk(l[2] # 0)
         /\ evaluate_condition(MkAnd(MkSignal(SigN), l[1]),
                               waveform, DOMAIN waveform.vars, t).ok
    /\ \A L \in EvaluableLogicalOperands(t) : \A R \in LiteralOperands :
         /\ evaluate_condition(MkEq(L[1], R[1]), waveform, DOMAIN waveform.vars, t).ok
         /\ evaluate_condition(MkNeq(L[1], R[1]), waveform, DOMAIN waveform.vars, t).ok
    /\ (pc = "done" /\ condition \in {Text(<<"1", "'", "b", "1">>),
                                       Text(<<"!", "n", "=", "=", "w">>)}) =>
         result = Ok

\* The scan of `!n==w` has failed at its first index on the Not operand of
\* the comparison.
NotOperandOfComparisonFailsScan ==
  /\ pc = "done"
  /\ condition = Text(<<"!", "n", "=", "=", "w">>)
  /\ condition_ast = MkEq(MkNot(MkSignal(SigN)), MkSignal(SigW))
  /\ Len(evaluated) = 1
  /\ result = Err("Expected signal or literal in comparison")

\* The scan of the condition `1'b1` has failed at its first index.
LiteralConditionFailsScan ==
  /\ pc = "done"
  /\ condition = Text(<<"1", "'", "b", "1">>)
  /\ Len(evaluated) = 1
  /\ result = Err("Literals must be used in comparisons")

\* The nodes of the bitwise operators.
MkBitwiseAnd(l, r) == [op |-> "BitwiseAnd", l |-> l, r |-> r]
MkBitwiseOr(l, r) == [op |-> "BitwiseOr", l |-> l, r |-> r]
MkBitwiseXor(l, r) == [op |-> "BitwiseXor", l |-> l, r |-> r]

\* The Signal node of a one-character path.
Sig(c) == MkSignal(<<c>>)

\* Whether the condition string spelled by the words, once parsed, has
\* given the tree.
ParsesAs(words, ast) ==
  (condition = Text(words) /\ pc # "parse") => condition_ast = ast

\* C14: the parser honours the precedence OR < AND < equality < bitwise OR
\* < XOR < AND < unary < primary, and a parenthesized group overrides it.
ParserHonoursPrecedence ==
  /\ ParsesAs(<<"a", " ", "||", " ", "b", " ", "&&", " ", "c">>,
              MkOr(Sig("a"), MkAnd(Sig("b"), Sig("c"))))
  /\ ParsesAs(<<"a", " ", "&&", " ", "b", " ", "==", " ", "c">>,
              MkAnd(Sig("a"), MkEq(Sig("b"), Sig("c"))))
  /\ ParsesAs(<<"(", "a", " ", "||", " ", "b", ")", " ", "&&", " ", "c">>,
              MkAnd(MkOr(Sig("a"), Sig("b")), Sig("c")))
  /\ ParsesAs(<<"a", " ", "==", " ", "b", " ", "&", " ", "c">>,
              MkEq(Sig("a"), MkBitwiseAnd(Sig("b"), Sig("c"))))
  /\ ParsesAs(<<"a", " ", "|", " ", "b", " ", "^", " ", "c", " ", "&", " ", "d">>,
              MkBitwiseOr(Sig("a"), MkBitwiseXor(Sig("b"), MkBitwiseAnd(Sig("c"), Sig("d")))))
  /\ ParsesAs(<<"!", "a", " ", "&", " ", "b">>,
              MkBitwiseAnd(MkNot(Sig("a")), Sig("b")))

\* The call with `a == b & c` has been rejected by the parser, which stops
\* at the `&`.
BitwiseOperatorRejected ==
  /\ condition = Text(<<"a", " ", "==", " ", "b", " ", "&", " ", "c">>)
  /\ pc = "done"
  /\ condition_ast = NoAst
  /\ result = Err("Unexpected tokens at end of condition")

\* C14, for the operators the parser has: OR < AND < equality < unary `!`
\* < primary, and a parenthesized group overrides it.
ParserHonoursLogicalPrecedence ==
  /\ ParsesAs(<<"a", " ", "||", " ", "b", " ", "&&", " ", "c">>,
              MkOr(Sig("a"), MkAnd(Sig("b"), Sig("c"))))
  /\ ParsesAs(<<"a", " ", "&&", " ", "b", " ", "==", " ", "c">>,
              MkAnd(Sig("a"), MkEq(Sig("b"), Sig("c"))))
  /\ ParsesAs(<<"(", "a", " ", "||", " ", "b", ")", " ", "&&", " ", "c">>,
              MkAnd(MkOr(Sig("a"), Sig("b")), Sig("c")))
  /\ ParsesAs(<<"!", "a", " ", "&&", " ", "b">>,
              MkAnd(MkNot(Sig("a")), Sig("b")))

\* The width a decoded Literal carries: the number of bits of a Binary; a
\* Decimal and a Hexadecimal carry their u64 and no width.
LiteralWidth(lit) == IF lit.kind = "Binary" THEN Len(lit.bits) ELSE 0

\* Whether the call compares n with the token and has parsed the condition.
ComparedWith(token) == condition = <<"n", "=", "=">> \o token /\ pc # "parse"

\* C15: a valid sized literal decodes to the width of its prefix, never that
\* of its digit count, and to the magnitude its digits spell in its base;
\* leading zeros and `_` change neither.
LiteralDecodesToWidthAndMagnitude ==
  \A c \in LiteralCases :
    ComparedWith(c.token) =>
      /\ condition_ast.op = "Eq" /\ condition_ast.r.op = "Literal"
      /\ LiteralWidth(condition_ast.r.lit) = c.width
      /\ literal_to_i64(condition_ast.r.lit) = EOk(c.magnitude)

\* The literal `4'b11` has been decoded to the two bits of its digits.
LiteralWidthFromDigitCount ==
  /\ ComparedWith(<<"4", "'", "b", "1", "1">>)
  /\ condition_ast = MkEq(MkSignal(SigN),
                          MkLiteral([kind |-> "Binary", bits |-> <<TRUE, TRUE>>, value |-> 0]))

\* C15, the magnitude: a valid sized literal decodes to the magnitude its
\* digits spell, whatever its leading zeros and `_`, and the comparison
\* with it matches the time indices where n holds that magnitude.
LiteralDecodesToMagnitude ==
  \A c \in LiteralCases :
    ComparedWith(c.token) =>
      /\ condition_ast.op = "Eq" /\ condition_ast.r.op = "Literal"
      /\ literal_to_i64(condition_ast.r.lit) = EOk(c.magnitude)
      /\ (pc = "done" /\ limit = -1) =>
           /\ result = Ok
           /\ {EventIndices[k] : k \in 1..Len(events)}
                = {t \in start_idx..1 : waveform.vars[SigN].values[t + 1] = c.magnitude}

\* C16: a token of literal shape that is malformed is reported as a parse
\* error before any signal is resolved or any time index is evaluated.
MalformedLiteralRejectedAtParse ==
  \A token \in MalformedLiterals :
    ComparedWith(token) =>
      /\ pc = "done" /\ result.tag = "Err"
      /\ condition_ast = NoAst
      /\ signal_cache = {} /\ evaluated = <<>>

\* The call with `n==4'bxx` has taken the token for a signal name and has
\* resolved n before it fails.
MalformedLiteralTakenForSignal ==
  /\ ComparedWith(<<"4", "'", "b", "x", "x">>)
  /\ pc = "done"
  /\ condition_ast = MkEq(MkSignal(SigN), MkSignal(<<"4", "'", "b", "x", "x">>))
  /\ SigN \in signal_cache
  /\ result = Err("Signal not found")

RECURSIVE BitAnd(_, _)
\* x & y on non-negative integers.
BitAnd(x, y) ==
  IF x = 0 \/ y = 0 THEN 0
  ELSE (IF x % 2 = 1 /\ y % 2 = 1 THEN 1 ELSE 0) + 2 * BitAnd(x \div 2, y \div 2)

RECURSIVE BitXor(_, _)
\* x ^ y on non-negative integers.
BitXor(x, y) ==
  IF x = 0 THEN y
  ELSE IF y = 0 THEN x
  ELSE (IF x % 2 # y % 2 THEN 1 ELSE 0) + 2 * BitXor(x \div 2, y \div 2)

\* The numbers n and w hold at time index t.
ValueOfN(t) == waveform.vars[SigN].values[t + 1]
ValueOfW(t) == waveform.vars[SigW].values[t + 1]

\* Whether the unlimited scan of the condition spelled by the words, once
\* it has returned, has matched exactly the time indices of its range that
\* are in the set.
MatchesExactly(words, indices) ==
  (condition = Text(words) /\ pc = "done" /\ limit = -1) =>
    /\ result = Ok
    /\ {EventIndices[k] : k \in 1..Len(events)} = indices \cap start_idx..1

\* C17: used as a condition, `L & R`, `L | R` and `L ^ R` match exactly the
\* time indices where the bit operation on the magnitudes of L and R is
\* non-zero.
BitwiseOperatorsMatchNonZero ==
  /\ MatchesExactly(<<"n", " ", "&", " ", "w">>,
                    {t \in 0..1 : BitAnd(ValueOfN(t), ValueOfW(t)) # 0})
  /\ MatchesExactly(<<"n", " ", "|", " ", "w">>,
                    {t \in 0..1 : BitOr(ValueOfN(t), ValueOfW(t)) # 0})
  /\ MatchesExactly(<<"n", " ", "^", " ", "w">>,
                    {t \in 0..1 : BitXor(ValueOfN(t), ValueOfW(t)) # 0})

\* The call with `n & w` has been rejected by the parser, which stops at
\* the `&`.
BitwiseAndRejected ==
  /\ condition = Text(<<"n", " ", "&", " ", "w">>)
  /\ pc = "done"
  /\ condition_ast = NoAst
  /\ result = Err("Unexpected tokens at end of condition")

\* The largest number n's bits can hold.
AllOnesOfN == Pow2(waveform.vars[SigN].bits) - 1

\* C18: BitwiseNot is an involution on the values of a signal's width and
\* stays within that width: `~~n == n` matches every time index, `~~n`
\* matches exactly where n is non-zero, and `~n & n` matches none.
BitwiseNotIsInvolution ==
  /\ MatchesExactly(<<"~", "~", "n", " ", "==", " ", "n">>, 0..1)
  /\ MatchesExactly(<<"~", "~", "n">>, {t \in 0..1 : ValueOfN(t) # 0})
  /\ MatchesExactly(<<"~", "n", " ", "&", " ", "n">>, {})

\* The call with `~~n == n` has failed to resolve `~~n`, which the
\* tokenizer took for a signal name.
DoubleNotTakenForSignal ==
  /\ condition = Text(<<"~", "~", "n", " ", "==", " ", "n">>)
  /\ pc = "done"
  /\ condition_ast = MkEq(MkSignal(<<"~", "~", "n">>), MkSignal(SigN))
  /\ result = Err("Signal not found")

\* C19: `~E` is the magnitude of E with the bits of E's width flipped:
\* `~n` matches exactly the time indices where n is not all ones, and
\* `~4'b0101`, which is 10, matches every time index.
BitwiseNotFlipsBitsOfWidth ==
  /\ MatchesExactly(<<"~", "n">>, {t \in 0..1 : ValueOfN(t) # AllOnesOfN})
  /\ MatchesExactly(<<"~", "4", "'", "b", "0", "1", "0", "1">>, 0..1)

\* The call with `~n` has failed to resolve `~n`, which the tokenizer took
\* for a signal name, over a waveform where n is not all ones.
NotTakenForSignal ==
  /\ condition = Text(<<"~", "n">>)
  /\ pc = "done"
  /\ condition_ast = MkSignal(<<"~", "n">>)
  /\ \E t \in start_idx..1 : ValueOfN(t) # AllOnesOfN
  /\ result = Err("Signal not found")

\* The bits msb down to lsb of x.
Extracted(x, msb, lsb) == (x \div Pow2(lsb)) % Pow2(msb - lsb + 1)

\* C20: `sig[msb:lsb]` compared with a literal matches exactly the time
\* indices where the bits msb down to lsb of the signal equal the literal's
\* magnitude, zero included, and `sig[n]` matches where `sig[n:n]` does.
BitSelectExtractsBits ==
  /\ MatchesExactly(<<"n", "[", "1", ":", "0", "]", " ", "==", " ", "2", "'", "b", "1", "1">>,
                    {t \in 0..1 : Extracted(ValueOfN(t), 1, 0) = 3})
  /\ MatchesExactly(<<"n", "[", "3", ":", "2", "]", " ", "==", " ", "2", "'", "b", "0", "0">>,
                    {t \in 0..1 : Extracted(ValueOfN(t), 3, 2) = 0})
  /\ MatchesExactly(<<"n", "[", "0", ":", "0", "]", " ", "==", " ", "1'b1">>,
                    {t \in 0..1 : Extracted(ValueOfN(t), 0, 0) = 1})
  /\ MatchesExactly(<<"n", "[", "0", "]", " ", "==", " ", "1'b1">>,
                    {t \in 0..1 : Extracted(ValueOfN(t), 0, 0) = 1})
  /\ MatchesExactly(<<"w", "[", "8", "]", " ", "==", " ", "1'b1">>,
                    {t \in 0..1 : Extracted(ValueOfW(t), 8, 8) = 1})

\* The call with `n[1:0] == 2'b11` has failed to resolve `n[1:0]`, which
\* the tokenizer took for a signal name, over a waveform where the two low
\* bits of n are ones.
BitSelectTakenForSignal ==
  /\ condition = Text(<<"n", "[", "1", ":", "0", "]", " ", "==", " ", "2", "'", "b", "1", "1">>)
  /\ pc = "done"
  /\ condition_ast = MkEq(MkSignal(<<"n", "[", "1", ":", "0", "]">>), Lit(<<"2", "'", "b", "1", "1">>))
  /\ \E t \in start_idx..1 : Extracted(ValueOfN(t), 1, 0) = 3
  /\ result = Err("Signal not found")

EventLeafFailsInEveryContext ==
  (/\ condition \in {Text(c) : c \in EventBooleanConditions \cup EventComparisonConditions}
   /\ evaluated # <<>>) =>
    /\ pc = "done"
    /\ result.tag = "Err"

\* The call with the condition `e` has evaluated it at both time indices
\* and has returned no error and no match.
EventConditionIsFalse ==
  /\ condition = Text(<<"e">>)
  /\ pc = "done"
  /\ evaluated = <<0, 1>>
  /\ result = Ok
  /\ events = <<>>

\* Evaluating an event-typed Signal leaf as an operand of Eq or Neq fails
\* the scan with the type error, at the first time index it evaluates.
EventOperandOfComparisonFails ==
  (condition \in {Text(c) : c \in EventComparisonConditions} /\ evaluated # <<>>) =>
    /\ pc = "done"
    /\ Len(evaluated) = 1
    /\ result = Err("Event signal cannot be compared")

RECURSIVE FirstUses(_, _)
\* The words a and b of a condition in the order of their first use, after
\* those already seen.
FirstUses(words, seen) ==
  IF words = <<>> THEN seen
  ELSE FirstUses(Tail(words),
                 IF Head(words) \in {"a", "b"} /\ \A k \in 1..Len(seen) : seen[k] # Head(words)
                 THEN Append(seen, Head(words)) ELSE seen)

\* The display of a one-bit wire holding v.
WireDisplay(v) == "1'b" \o ToString(v)

RECURSIVE EntriesFrom(_, _, _)
\* `p1 = v1, p2 = v2, ...` for the paths from the k-th on, each with the
\* value the waveform holds for it at time index t.
EntriesFrom(paths, k, t) ==
  IF k > Len(paths) THEN ""
  ELSE (IF k > 1 THEN ", " ELSE "")
       \o paths[k] \o " = " \o WireDisplay(waveform.vars[<<paths[k]>>].values[t + 1])
       \o EntriesFrom(paths, k + 1, t)

\* The match string the condition spelled by the words has at time index t.
MatchString(words, t) ==
  "Time index " \o ToString(t) \o " (" \o ToString(10 * t) \o "ns): "
  \o EntriesFrom(FirstUses(words, <<>>), 1, t)

\* C23: each match string is `Time index {idx} ({formatted_time}): p1 = v1,
\* p2 = v2, ...` with exactly one entry for every distinct signal of the
\* condition, in first-use order, each value being the signal's value at
\* the match's own time index, also for a signal used only inside `$past`.
MatchStringShowsEverySignal ==
  \A words \in DisplayConditions :
    condition = Text(words) =>
      \A k \in 1..Len(events) :
        EventString(events[k]) = MatchString(words, events[k].time_idx)

\* The call with `a || $past(b)` has returned the match of time index 0,
\* where b has no value yet, without an entry for b.
MatchWithoutEntryForLateSignal ==
  /\ condition = Text(<<"a", " ", "||", " ", "$past", "(", "b", ")">>)
  /\ pc = "done"
  /\ result = Ok
  /\ waveform.vars[SigB].values[1] < 0
  /\ Len(events) = 1
  /\ EventString(events[1]) = "Time index 0 (0ns): a = 1'b1"

\* Every match string has the claimed shape when each signal of the
\* condition has a value at the match's time index.
MatchStringShowsEverySignalWithValue ==
  \A words \in DisplayConditions :
    condition = Text(words) =>
      \A k \in 1..Len(events) :
        waveform.vars[SigB].values[events[k].time_idx + 1] >= 0 =>
          EventString(events[k]) = MatchString(words, events[k].time_idx)

\* Whether the entry reports time index i as out of range, whatever maximum
\* it names.
IsOutOfRangeEntry(entry, i) ==
  \E max \in {ToString(m) : m \in 0..MaxLen} \cup {"-1", UsizeMaxString} :
    entry = "Time index " \o ToString(i) \o " out of range (max: " \o max \o ")"

\* Whether the entry shows the value a holds at time index i.
IsValueEntry(entry, i) ==
  entry = "Time index " \o ToString(i) \o " (" \o ToString(10 * i) \o "ns): "
          \o WireDisplay(waveform.vars[SigA].values[i + 1])

\* Whether a has been loaded and has a value at every requested time index
\* of the time table.
ReadableIndices ==
  /\ signal_ref \in signal_cache
  /\ \A k \in 1..Len(time_indices) :
       time_indices[k] < Len(waveform.time_table) =>
         waveform.vars[SigA].values[time_indices[k] + 1] >= 0

\* Whether the call has returned one entry per requested time index, in
\* request order, an out-of-range entry for each index at or past the
\* length of the time table.
OneEntryPerIndex ==
  /\ result = Ok
  /\ Len(results) = Len(time_indices)
  /\ \A k \in 1..Len(time_indices) :
       IF time_indices[k] >= Len(waveform.time_table)
       THEN IsOutOfRangeEntry(results[k], time_indices[k])
       ELSE IsValueEntry(results[k], time_indices[k])

\* C24: read_signal_values returns exactly one entry per requested time
\* index, in request order; an index at or past the length of the trace
\* gives an out-of-range entry and neither fails the call nor stops the
\* processing of the remaining indices.
ReadReturnsOneEntryPerIndex ==
  (call = "read_signal_values" /\ pc = "done" /\ ReadableIndices) => OneEntryPerIndex

\* A call of read_signal_values over an empty time table has panicked at an
\* out-of-range index.
OutOfRangeIndexPanics ==
  /\ call = "read_signal_values"
  /\ pc = "done"
  /\ ReadableIndices
  /\ waveform.time_table = <<>>
  /\ time_indices # <<>>
  /\ result = Panic("attempt to subtract with overflow")

\* Over a time table that is not empty, read_signal_values returns one
\* entry per requested time index, out-of-range indices included.
ReadReturnsOneEntryPerIndexOfTable ==
  (/\ call = "read_signal_values" /\ pc = "done" /\ ReadableIndices
   /\ waveform.time_table # <<>>) => OneEntryPerIndex

\* Whether a takes a value at time index t that it did not hold before.
ChangedAt(t) ==
  LET values == waveform.vars[SigA].values
  IN /\ t + 1 <= Len(values)
     /\ values[t + 1] >= 0
     /\ (t = 0 \/ values[t] # values[t + 1])

\* The time indices of [start_idx, end_idx] at which a changes.
ChangesInRange == {t \in start_idx..end_idx : ChangedAt(t)}

\* C25: find_signal_events returns only value changes whose time index is
\* in [start_idx, end_idx], in increasing time-index order, at most `limit`
\* of them when limit >= 0, 0 included, and all of them when limit is -1.
SignalEventsWithinRangeAndLimit ==
  call = "find_signal_events" =>
    /\ \A k \in 1..Len(events) :
         /\ events[k].time_idx \in ChangesInRange
         /\ IsValueEntry(events[k].entry, events[k].time_idx)
    /\ \A j, k \in 1..Len(events) : j < k => events[j].time_idx < events[k].time_idx
    /\ limit >= 0 => Len(events) <= limit
    /\ (pc = "done" /\ result = Ok /\ limit = -1) =>
         {events[k].time_idx : k \in 1..Len(events)} = ChangesInRange

\* A call of find_signal_events that starts after time index 0 has returned
\* as many changes as its limit allows, fewer than its range holds.
SignalEventsWitness ==
  /\ call = "find_signal_events"
  /\ pc = "done"
  /\ result = Ok
  /\ start_idx >= 1
  /\ limit >= 0
  /\ Len(events) = limit
  /\ Cardinality(ChangesInRange) > limit

\* The result and the events a finished call has returned.
Returned == [result |-> result, events |-> events]

\* The length of the time table, and its last valid index.
TraceLength == Len(waveform.time_table)
LastIndex == TraceLength - 1

\* C26: with `end` at or beyond the length of the trace, a call of
\* find_conditional_events returns what the call with `end` at the last
\* valid index returns, and no error for the excess.
ExcessEndIsLastIndex ==
  (/\ call = "find_conditional_events" /\ pc = "done"
   /\ TraceLength >= 1 /\ end_idx >= TraceLength) =>
    Returned = find_conditional_events(waveform, condition, start_idx, LastIndex, limit)

\* A call with `end` beyond the trace has returned two matches, the second
\* at the last valid index.
ExcessEndWitness ==
  /\ call = "find_conditional_events" /\ pc = "done"
  /\ TraceLength >= 1 /\ end_idx > TraceLength
  /\ result = Ok
  /\ Len(events) = 2
  /\ events[2].time_idx = LastIndex

\* Every finished call has returned what find_conditional_events gives for
\* its arguments.
CallReturnsItsOutcome ==
  (call = "find_conditional_events" /\ pc = "done") =>
    Returned = find_conditional_events(waveform, condition, start_idx, end_idx, limit)

\* The time indices at which the scan has fetched a signal value so far.
FetchedIndices ==
  UNION { LookupIndices(condition_ast, waveform, signal_cache, evaluated[k], FALSE) :
          k \in 1..Len(evaluated) }

\* C27: during a scan over [start, end] no expression is evaluated and no
\* signal value is fetched at a time index outside [start, end], the
\* operand of `$past` at index start > 0 included.
NothingEvaluatedOutsideRange ==
  call = "find_conditional_events" =>
    /\ \A k \in 1..Len(evaluated) : evaluated[k] \in start_idx..end_idx
    /\ FetchedIndices \subseteq start_idx..end_idx

\* The scan of `$past(a)` from time index 1 has fetched the value of a at
\* time index 0 and returned the match of index 1 on it.
PastFetchesBeforeStart ==
  /\ condition = Text(<<"$past", "(", "a", ")">>)
  /\ pc = "done"
  /\ result = Ok
  /\ start_idx = 1
  /\ 0 \in FetchedIndices
  /\ waveform.vars[SigA].values[1] = 1
  /\ Len(events) >= 1 /\ events[1].time_idx = 1

\* The condition itself is evaluated only at time indices of [start, end]
\* within the trace, and a signal value is never fetched past the end of
\* the range.
EvaluatedWithinRange ==
  call = "find_conditional_events" =>
    /\ \A k \in 1..Len(evaluated) :
         evaluated[k] \in start_idx..ClampedEnd(end_idx, Len(waveform.time_table))
    /\ \A t \in FetchedIndices : 0 <= t /\ t <= end_idx

RECURSIVE Leaves(_)
\* The paths of the Signal leaves of an AST, from left to right, repeats
\* included.
Leaves(ast) ==
  CASE ast.op \in {"And", "Or", "Eq", "Neq"} -> Leaves(ast.l) \o Leaves(ast.r)
    [] ast.op \in {"Not", "Past"} -> Leaves(ast.e)
    [] ast.op = "Signal" -> <<ast.path>>
    [] OTHER -> <<>>

\* The position of the first occurrence of x in the sequence.
FirstPosition(seq, x) == CHOOSE p \in 1..Len(seq) : seq[p] = x /\ \A q \in 1..(p - 1) : seq[q] # x

\* C28: the signal-name extractor returns every path of a signal leaf of
\* the AST, inside Past and on both sides of comparisons too, each exactly
\* once, in the order of first occurrence from left to right; literals
\* contribute nothing; and each of them is resolved once.
ExtractorReturnsEachPathOnce ==
  (call = "find_conditional_events" /\ pc # "parse" /\ condition_ast # NoAst) =>
    LET leaves == Leaves(condition_ast)
    IN /\ {signal_names[k] : k \in 1..Len(signal_names)} = {leaves[k] : k \in 1..Len(leaves)}
       /\ \A j, k \in 1..Len(signal_names) :
            j < k => /\ signal_names[j] # signal_names[k]
                     /\ FirstPosition(leaves, signal_names[j]) < FirstPosition(leaves, signal_names[k])
       /\ (pc \in {"scan", "done"} /\ result # Err("Signal not found")) =>
            signal_cache = {signal_names[k] : k \in 1..Len(signal_names)}

\* The condition `$past(b) == a || b != 1'b1 && a` has been parsed and its
\* two signals extracted, b before a, each once, and resolved.
ExtractorWitness ==
  /\ pc = "scan"
  /\ Leaves(condition_ast) = <<SigB, SigA, SigB, SigA>>
  /\ signal_names = <<SigB, SigA>>
  /\ signal_cache = {SigA, SigB}

\* C29: magnitudes are exact: for a signal of any width, wider than 8 bits
\* included, holding v and a literal of magnitude m, `sig == lit` is true
\* exactly where v = m.
EqIsExactForAnyWidth ==
  /\ MatchesExactly(<<"n", "==", "3", "'", "d", "3">>, {t \in 0..1 : ValueOfN(t) = 3})
  /\ MatchesExactly(<<"w", "==", "9", "'", "d", "2", "5", "6">>, {t \in 0..1 : ValueOfW(t) = 256})
  /\ MatchesExactly(<<"w", "==", "9", "'", "d", "1">>, {t \in 0..1 : ValueOfW(t) = 1})

\* The scan of `w==9'd1` has returned the match of time index 1, where the
\* 9-bit w holds 256.
WideSignalMatchesOtherMagnitude ==
  /\ condition = Text(<<"w", "==", "9", "'", "d", "1">>)
  /\ pc = "done" /\ result = Ok
  /\ ValueOfW(1) = 256
  /\ \E k \in 1..Len(events) : events[k].time_idx = 1

\* C30: find_conditional_events never aborts on an empty or inverted range:
\* with a start index above the clamped end (past the last index of the
\* trace, above `end`, or over an empty time table) it returns an empty
\* match list or an error value, never a panic.
EmptyRangeNeverPanics ==
  (/\ call = "find_conditional_events" /\ pc = "done"
   /\ \/ start_idx > ClampedEnd(end_idx, TraceLength)
      \/ TraceLength = 0) =>
    \/ result = Ok /\ events = <<>>
    \/ result.tag = "Err"

\* A call over a trace of three time points with start 2 and end 0 has
\* panicked at the slice of the time table.
InvertedRangePanics ==
  /\ call = "find_conditional_events" /\ pc = "done"
  /\ TraceLength = 3 /\ start_idx = 2 /\ end_idx = 0
  /\ signal_cache # {}
  /\ result = Panic("slice index out of range")

\* A call whose start index is one above the clamped end returns an empty
\* match list.
RangeEmptyByOneReturnsNothing ==
  (/\ call = "find_conditional_events" /\ pc = "done"
   /\ TraceLength >= 1
   /\ start_idx = ClampedEnd(end_idx, TraceLength) + 1) =>
    \/ result = Ok /\ events = <<>>
    \/ result.tag = "Err"
====
